---- MODULE Spec2Model ----
(***************************************************************************)
(* Verification model of the VerusOS analytical core:                      *)
(*   app/core/detection.py            CrisisDetector (risk classifier)     *)
(*   app/services/risk_stratification.py  RiskStratificationEngine         *)
(*   app/services/boundary_engine.py  BoundaryEngine                       *)
(*   app/services/temporal_tracking.py TemporalTrackingService             *)
(*   app/api/detection.py             POST /detect handler                 *)
(*                                                                         *)
(* Python floats are IEEE-754 binary64.  The scores of the classifier are  *)
(* sums and products of decimal literals (0.7, 0.1, 0.05, 1.3, ...) that   *)
(* are not representable in binary, and the risk score is obtained by      *)
(* truncating such a value, so the arithmetic is modelled bit-exactly: a   *)
(* float is a 53-bit significand (a natural number held as little-endian   *)
(* limbs, since TLC integers are 32 bits wide) and a binary exponent, and  *)
(* every operation rounds to nearest, ties to even.                        *)
(***************************************************************************)
EXTENDS Integers, Sequences, FiniteSets, TLC

VARIABLES
    detector,   \* state of the module-level CrisisDetector instance
    call,       \* the library call being made: function and arguments
    outcome,    \* what the call returned or raised, Pending before
    seen,       \* the calls made so far, each with its outcome
    companies,  \* table companies, rows in insertion order
    detections, \* table detections
    audit_logs, \* table audit_logs
    company_responses,  \* table company_responses
    compliance_reviews, \* table compliance_reviews
    workers,    \* the requests that parallel workers are handling: for each
                \* worker its position in the handler and its locals
    now,        \* the clock, in hours
    last_response \* the last request's response, the values of its handler's
                  \* locals and the query that failed; None before

vars == <<detector, call, outcome, seen,
          companies, detections, audit_logs, company_responses,
          compliance_reviews, workers, now, last_response>>

\* the tables, the requests in progress, the clock and the last HTTP
\* response
store == <<companies, detections, audit_logs, company_responses,
           compliance_reviews, workers, now, last_response>>

\* ------------------------------------------------------------------------
\* Natural numbers of arbitrary size: little-endian limbs, no high zero limb
\* ------------------------------------------------------------------------
LimbBits == 15

Base == 32768

MantBits == 53

RECURSIVE Pow2(_)
Pow2(k) == IF k = 0 THEN 1 ELSE 2 * Pow2(k - 1)

RECURSIVE IntBitLen(_)
IntBitLen(n) == IF n = 0 THEN 0 ELSE 1 + IntBitLen(n \div 2)

RECURSIVE BnNorm(_)
BnNorm(a) ==
    IF a = <<>> THEN <<>>
    ELSE IF a[Len(a)] = 0 THEN BnNorm(SubSeq(a, 1, Len(a) - 1))
    ELSE a

RECURSIVE BnFromInt(_)
BnFromInt(n) == IF n = 0 THEN <<>> ELSE <<n % Base>> \o BnFromInt(n \div Base)

RECURSIVE BnToInt(_)
BnToInt(a) == IF a = <<>> THEN 0 ELSE a[1] + Base * BnToInt(Tail(a))

RECURSIVE BnAddC(_, _, _)
BnAddC(a, b, c) ==
    IF a = <<>> /\ b = <<>> THEN (IF c = 0 THEN <<>> ELSE <<c>>)
    ELSE LET x == IF a = <<>> THEN 0 ELSE a[1]
             y == IF b = <<>> THEN 0 ELSE b[1]
             s == x + y + c
         IN  <<s % Base>> \o BnAddC(IF a = <<>> THEN <<>> ELSE Tail(a),
                                    IF b = <<>> THEN <<>> ELSE Tail(b),
                                    s \div Base)

BnAdd(a, b) == BnAddC(a, b, 0)

RECURSIVE BnMulSmallC(_, _, _)
BnMulSmallC(a, d, c) ==
    IF a = <<>> THEN BnFromInt(c)
    ELSE LET p == a[1] * d + c
         IN  <<p % Base>> \o BnMulSmallC(Tail(a), d, p \div Base)

BnMulSmall(a, d) == BnNorm(BnMulSmallC(a, d, 0))

RECURSIVE BnMulRaw(_, _)
BnMulRaw(a, b) ==
    IF b = <<>> THEN <<>>
    ELSE BnAdd(BnMulSmallC(a, b[1], 0), <<0>> \o BnMulRaw(a, Tail(b)))

BnMul(a, b) == BnNorm(BnMulRaw(a, b))

BnBitLen(a) ==
    IF a = <<>> THEN 0 ELSE (Len(a) - 1) * LimbBits + IntBitLen(a[Len(a)])

BnShl(a, k) ==
    IF a = <<>> THEN <<>>
    ELSE [i \in 1..(k \div LimbBits) |-> 0] \o BnMulSmall(a, Pow2(k % LimbBits))

BnShr(a, k) ==
    LET q == k \div LimbBits
        r == k % LimbBits
        n == Len(a) - q
    IN  IF n <= 0 THEN <<>>
        ELSE BnNorm([i \in 1..n |->
                 (a[q + i] \div Pow2(r))
                 + (IF i < n THEN (a[q + i + 1] % Pow2(r)) * Pow2(LimbBits - r)
                    ELSE 0)])

BnTestBit(a, i) ==
    LET j == (i \div LimbBits) + 1
    IN  IF j > Len(a) THEN 0 ELSE (a[j] \div Pow2(i % LimbBits)) % 2

\* TRUE iff the k low bits of a are all zero
BnLowZero(a, k) ==
    \A j \in 1..Len(a) :
        /\ (j <= k \div LimbBits) => a[j] = 0
        /\ (j = (k \div LimbBits) + 1) => a[j] % Pow2(k % LimbBits) = 0

\* <<quotient, remainder>> of a by a small divisor, most significant limb first
RECURSIVE BnDivSmallR(_, _, _)
BnDivSmallR(a, d, r) ==
    IF a = <<>> THEN <<<<>>, r>>
    ELSE LET n   == Len(a)
             cur == r * Base + a[n]
             rst == BnDivSmallR(SubSeq(a, 1, n - 1), d, cur % d)
         IN  <<rst[1] \o <<cur \div d>>, rst[2]>>

BnDivSmall(a, d) ==
    LET qr == BnDivSmallR(a, d, 0) IN <<BnNorm(qr[1]), qr[2]>>

RECURSIVE BnLessFrom(_, _, _)
BnLessFrom(a, b, i) ==
    IF i = 0 THEN FALSE
    ELSE IF a[i] # b[i] THEN a[i] < b[i]
    ELSE BnLessFrom(a, b, i - 1)

BnLess(a, b) ==
    IF Len(a) # Len(b) THEN Len(a) < Len(b) ELSE BnLessFrom(a, b, Len(a))

\* ------------------------------------------------------------------------
\* binary64 values >= 0: [m |-> significand, e |-> exponent], value m * 2^e,
\* with 2^52 <= m < 2^53, or FZero
\* ------------------------------------------------------------------------
FZero == [m |-> <<>>, e |-> 0]

\* round the exact value (bn [+ a nonzero fraction if sticky]) * 2^e
FRound(bn, e, sticky) ==
    LET L == BnBitLen(bn)
    IN  IF L = 0 THEN FZero
        ELSE IF L <= MantBits
             THEN [m |-> BnShl(bn, MantBits - L), e |-> e - (MantBits - L)]
        ELSE LET s  == L - MantBits
                 q  == BnShr(bn, s)
                 rb == BnTestBit(bn, s - 1)
                 st == sticky \/ ~BnLowZero(bn, s - 1)
                 up == rb = 1 /\ (st \/ BnTestBit(q, 0) = 1)
                 q2 == IF up THEN BnAdd(q, <<1>>) ELSE q
             IN  IF BnBitLen(q2) > MantBits
                 THEN [m |-> BnShr(q2, 1), e |-> e + s + 1]
                 ELSE [m |-> q2, e |-> e + s]

\* the float denoted by the decimal literal num/den (den a power of ten)
FLit(num, den) ==
    LET qr == BnDivSmall(BnShl(BnFromInt(num), 75), den)
    IN  FRound(qr[1], -75, qr[2] # 0)

FFromInt(n) == FRound(BnFromInt(n), 0, FALSE)

\* the float literals of the source
F_0_05 == FLit(5, 100)

F_0_1 == FLit(1, 10)

F_0_5 == FLit(5, 10)

F_0_7 == FLit(7, 10)

F_1_0 == FFromInt(1)

F_1_1 == FLit(110, 100)

F_1_15 == FLit(115, 100)

F_1_2 == FLit(12, 10)

F_1_3 == FLit(13, 10)

F_100 == FFromInt(100)

F_0_9 == FLit(9, 10)

\* Python a / b for two int: the float nearest to the quotient
truediv(a, b) == FLit(a, b)

FAdd(x, y) ==
    IF x = FZero THEN y
    ELSE IF y = FZero THEN x
    ELSE LET e == IF x.e < y.e THEN x.e ELSE y.e
         IN  FRound(BnAdd(BnShl(x.m, x.e - e), BnShl(y.m, y.e - e)), e, FALSE)

FMul(x, y) ==
    IF x = FZero \/ y = FZero THEN FZero
    ELSE FRound(BnMul(x.m, y.m), x.e + y.e, FALSE)

FLess(x, y) ==
    IF y = FZero THEN FALSE
    ELSE IF x = FZero THEN TRUE
    ELSE IF x.e # y.e THEN x.e < y.e
    ELSE BnLess(x.m, y.m)

FLeq(x, y) == ~FLess(y, x)

\* Python min(a, b): b if b < a else a
FMin(a, b) == IF FLess(b, a) THEN b ELSE a

\* Python max(a, b, c): the first maximal argument
FMax3(a, b, c) ==
    LET ab == IF FLess(a, b) THEN b ELSE a
    IN  IF FLess(ab, c) THEN c ELSE ab

\* Python int(x): truncation toward zero
FTrunc(x) ==
    IF x = FZero THEN 0
    ELSE IF x.e >= 0 THEN BnToInt(BnShl(x.m, x.e))
    ELSE BnToInt(BnShr(x.m, -x.e))

\* Python round(x): nearest integer, ties to the even one
FRoundInt(x) ==
    IF x = FZero THEN 0
    ELSE IF x.e >= 0 THEN BnToInt(BnShl(x.m, x.e))
    ELSE LET s    == -x.e
             q    == BnToInt(BnShr(x.m, s))
             rb   == BnTestBit(x.m, s - 1)
             rest == ~BnLowZero(x.m, s - 1)
         IN  IF rb = 1 /\ (rest \/ q % 2 = 1) THEN q + 1 ELSE q

\* ------------------------------------------------------------------------
\* Python values
\* ------------------------------------------------------------------------
None == [type |-> "NoneType"]

\* a str: the characters of a label, or the words of an utterance
PyStr(s) == [type |-> "str", s |-> s]

PyInt(n) == [type |-> "int", v |-> n]

\* a dict: items maps each key that is present to its value
PyDict(items) == [type |-> "dict", items |-> items]

PyList(elems) == [type |-> "list", elems |-> elems]

EmptyItems == [k \in {} |-> None]

DictGet(items, k, default) == IF k \in DOMAIN items THEN items[k] ELSE default

\* a str is a sequence of characters; str.lower()
LowerChar(c) ==
    CASE c = "A" -> "a" [] c = "M" -> "m" [] c = "P" -> "p" [] OTHER -> c

Lower(s) == [i \in 1..Len(s) |-> LowerChar(s[i])]

\* Python 'h in time' for two str
StrContains(h, s) ==
    \E i \in 0..(Len(s) - Len(h)) : \A j \in 1..Len(h) : s[i + j] = h[j]

\* an exception leaving a function, or its return value
Raised(exc) == [raised |-> TRUE, exc |-> exc]

Returned(v) == [raised |-> FALSE, value |-> v]

\* ------------------------------------------------------------------------
\* CrisisDetector: keyword tables (app/core/detection.py)
\* ------------------------------------------------------------------------
CRISIS_KEYWORDS == <<
    "\\b(kill|end).*(myself|my life)\\b",
    "\\b(want|going|gonna).*(die|suicide|dead)\\b",
    "\\bsuicid(e|al)\\b",
    "\\bkill myself\\b",
    "\\bend my life\\b",
    "\\bend it all\\b",
    "\\bwant to die\\b",
    "\\bend this\\b",
    "\\bending it\\b",
    "\\b(cut|hurt|harm).*(myself|self)\\b",
    "\\bself.?harm\\b",
    "\\bhurt myself\\b",
    "\\bcut myself\\b",
    "\\b(no|not).*(worth|point).*(living|anymore)\\b",
    "\\b(can\\'t|cannot).*(go on|take it|do this)\\b",
    "\\bbetter off (dead|without me)\\b",
    "\\bno point\\b",
    "\\bno reason to live\\b",
    "\\bworthless\\b",
    "\\bhopeless\\b",
    "\\b(nobody|no one).*(cares|wants|loves)\\b",
    "\\beveryone.*(better off|hate)\\b",
    "\\bwant to disappear\\b",
    "\\bdon\\'t want to (live|exist|be here)\\b",
    "\\btired of living\\b",
    "\\bgive up\\b",
    "\\bcan\\'t go on\\b",
    "\\bno future\\b",
    "\\bno hope\\b",
    "\\bdon\\'t see a future\\b",
    "\\bcare if i\\'m gone\\b",
    "\\bwant it to stop\\b",
    "\\bpain.*unbearable\\b",
    "\\bunbearable\\b",
    "\\bcan\\'t take\\b",
    "\\b(how to|ways to).*(kill|die|suicide|end)\\b",
    "\\b(pills|gun|rope|bridge|knife)\\b.*\\b(die|suicide|end|myself)\\b",
    "\\bhave a (gun|knife|pills)\\b",
    "\\bplanning.*(end|die|suicide|kill)\\b",
    "\\bprepared everything\\b",
    "\\bwrote.*(note|letter|goodbye)\\b",
    "\\bpills\\b.*\\b(easy|easiest|way)\\b",
    "\\bthought about ending\\b",
    "\\bbeen planning\\b",
    "\\bgoodbye.*(world|everyone|all)\\b",
    "\\bfinal goodbye\\b",
    "\\bthis is (the end|it|goodbye)\\b"
>>

GROOMING_KEYWORDS == <<
    "\\b(how old|what age|age)\\b.*\\b(you|are|r u)\\b",
    "\\b(what|which).*(school|grade)\\b",
    "\\bwhere.*(live|from|located|stay)\\b",
    "\\bwhat.*(address|location)\\b",
    "\\btell me.*(name|phone|where|about yourself)\\b",
    "\\bsend.*(picture|photo|pic|selfie|image)\\b",
    "\\bshow me.*(picture|photo|yourself|you)\\b",
    "\\b(can i|let me|want to).*(see|have).*(photo|picture|you)\\b",
    "\\bpic of you\\b",
    "\\bselfie\\b",
    "\\bmeet.*(up|irl|in person|real life|sometime)\\b",
    "\\b(come|go).*(meet|see).*(me|you)\\b",
    "\\bpick you up\\b",
    "\\bmy (car|place|house|apartment)\\b",
    "\\bcome to my\\b",
    "\\bcome over\\b",
    "\\bhang out.*(alone|private)\\b",
    "\\b(don\\'t tell|keep.*(secret|between|private))\\b",
    "\\b(our|this).*(secret|special|private)\\b",
    "\\bnobody.*(needs to|has to|should) know\\b",
    "\\bjust between us\\b",
    "\\bour little secret\\b",
    "\\byou\\'re.*(mature|pretty|hot|sexy|beautiful|cute)\\b",
    "\\byou look (older|mature|hot|sexy)\\b",
    "\\bso (mature|pretty|beautiful|hot)\\b",
    "\\bage.*(just a number|doesn\\'t matter)\\b",
    "\\b(really|so) mature\\b",
    "\\bmature for your age\\b",
    "\\bseem.*(mature|older)\\b"
>>

VIOLENCE_KEYWORDS == <<
    "\\b(kill|hurt|attack|harm).*(them|him|her|someone|people|you)\\b",
    "\\bi\\'m (going to|gonna|will).*(hurt|kill|attack)\\b",
    "\\bgoing to (hurt|kill|attack|harm)\\b",
    "\\bwant to (hurt|kill|attack|harm).*(them|him|her|someone)\\b",
    "\\bthey.*(deserve|should|going to|will).*die\\b",
    "\\b(make|watch).*(them|him|her).*(die|suffer|pay)\\b",
    "\\b(gun|knife|weapon|bomb)\\b.*\\b(kill|hurt|use|shoot|stab)\\b",
    "\\b(shoot|stab|blow up|attack)\\b",
    "\\bhave a (gun|knife|weapon)\\b",
    "\\bbring a (gun|knife|weapon)\\b",
    "\\bshoot.*(up|school|place|everyone|them all)\\b",
    "\\bmass.*(shooting|killing|murder)\\b",
    "\\b(kill|hurt|attack).*(everyone|them all|all of them)\\b",
    "\\bmake them (pay|suffer|regret)\\b",
    "\\bthey\\'ll.*(pay|regret|sorry)\\b",
    "\\bi know where.*(live|work|go|are)\\b",
    "\\bi have a (list|plan|target)\\b",
    "\\bplanning.*(attack|hurt|kill|shoot)\\b",
    "\\bthey won\\'t see.*(coming|it)\\b",
    "\\bpreparing.*(attack|weapons)\\b",
    "\\bplanned this\\b",
    "\\bepic destruction\\b"
>>

\* the state of the module-level instance 'detector' after __init__
CrisisDetector_init ==
    [crisis_keywords   |-> CRISIS_KEYWORDS,
     grooming_keywords |-> GROOMING_KEYWORDS,
     violence_keywords |-> VIOLENCE_KEYWORDS]

\* ------------------------------------------------------------------------
\* Utterances.  A message is a list of lower-case words joined by single
\* blanks (so that msg.lower().split() is the list itself), or None.
\* ------------------------------------------------------------------------
Vocab == {"i", "kill", "myself", "hopeless", "tonight", "selfie", "shoot", "suicide"}

MaxWords == 3

\* the sequences of at most n elements of S
RECURSIVE SeqsUpTo(_, _)
SeqsUpTo(S, n) ==
    IF n = 0 THEN {<<>>}
    ELSE LET shorter == SeqsUpTo(S, n - 1)
         IN  shorter \cup {Append(s, w) : s \in {t \in shorter : Len(t) = n - 1},
                                          w \in S}

Messages == SeqsUpTo(Vocab, MaxWords)

HasWord(msg, ws) == \E i \in 1..Len(msg) : msg[i] \in ws

\* \b(A).*(B)\b : a word of A, later a word of B
WordThenWord(msg, as, bs) ==
    \E i \in 1..Len(msg) : \E j \in (i + 1)..Len(msg) :
        msg[i] \in as /\ msg[j] \in bs

\* \ba b\b : the two words next to each other
WordPair(msg, a, b) ==
    \E i \in 1..(Len(msg) - 1) : msg[i] = a /\ msg[i + 1] = b

\* p.search(msg) for a compiled pattern p (re.IGNORECASE) and a message over
\* Vocab, a row of TestSetRows or one of ManyPatternMessages,
\* FeatureMessages and KeywordMessages; the patterns not listed need words
\* that these messages do not have
search(p, msg) ==
    CASE p = "\\b(kill|end).*(myself|my life)\\b" ->
             WordThenWord(msg, {"kill"}, {"myself"})
      [] p = "\\bsuicid(e|al)\\b" -> HasWord(msg, {"suicide"})
      [] p = "\\bkill myself\\b" -> WordPair(msg, "kill", "myself")
      [] p = "\\bhopeless\\b" -> HasWord(msg, {"hopeless"})
      [] p = "\\bworthless\\b" -> HasWord(msg, {"worthless"})
      [] p = "\\bgive up\\b" -> WordPair(msg, "give", "up")
      [] p = "\\bno future\\b" -> WordPair(msg, "no", "future")
      [] p = "\\bno hope\\b" -> WordPair(msg, "no", "hope")
      [] p = "\\bunbearable\\b" -> HasWord(msg, {"unbearable"})
      [] p = "\\bselfie\\b" -> HasWord(msg, {"selfie"})
      [] p = "\\b(shoot|stab|blow up|attack)\\b" -> HasWord(msg, {"shoot"})
      [] OTHER -> FALSE

\* a count of the words that a pattern matches, not of the patterns
count_matches_per_word(msg, patterns) ==
    Cardinality({<<i, j>> \in (1..Len(patterns)) \X (1..Len(msg)) :
                    search(patterns[i], <<msg[j]>>)})

\* CrisisDetector._count_matches
count_matches(msg, patterns) ==
    Cardinality({i \in 1..Len(patterns) : search(patterns[i], msg)})

\* CrisisDetector._extract_features
CountIn(words, list) == Cardinality({i \in 1..Len(words) : words[i] \in list})

extract_features(msg) ==
    LET words  == msg
        fp_cnt == CountIn(words, {"i", "me", "my", "myself", "mine",
                                  "i'm", "i've", "i'll"})
        neg_cnt == CountIn(words, {"no", "not", "never", "nothing", "nobody",
                                   "alone", "empty", "hopeless", "worthless",
                                   "hate", "can't", "cannot"})
        future_cnt == CountIn(words, {"will", "going", "gonna", "tomorrow",
                                      "tonight", "planning", "plan"})
        urgency_cnt == CountIn(words, {"now", "tonight", "today",
                                       "immediately", "right now"})
        q_cnt == CountIn(words, {"what", "where", "when", "how", "who", "why"})
        imp_cnt == CountIn(words, {"send", "show", "tell", "come", "meet",
                                   "give", "let"})
    IN  [first_person_count |-> fp_cnt,
         negative_count     |-> neg_cnt,
         future_count       |-> future_cnt,
         urgency_count      |-> urgency_cnt,
         question_count     |-> q_cnt,
         imperative_count   |-> imp_cnt,
         word_count         |-> IF Len(words) = 0 THEN 1 ELSE Len(words),
         has_first_person   |-> IF fp_cnt > 0 THEN F_1_0 ELSE FZero,
         has_negative       |-> IF neg_cnt > 0 THEN F_1_0 ELSE FZero,
         has_urgency        |-> IF urgency_cnt > 0 THEN F_1_0 ELSE FZero]

\* a crisis adjustment that adds only the largest term that applies
adjust_crisis_score_largest_only(base, f) ==
    IF base = FZero THEN FZero
    ELSE FMin(IF f.has_urgency # FZero THEN FAdd(base, F_0_1)
              ELSE IF f.has_first_person # FZero \/ f.has_negative # FZero
                   THEN FAdd(base, F_0_05)
              ELSE base,
              F_1_0)

\* CrisisDetector._adjust_crisis_score
adjust_crisis_score(base, f) ==
    IF base = FZero THEN FZero
    ELSE LET s1 == IF f.has_first_person # FZero
                   THEN FAdd(base, F_0_05) ELSE base
             s2 == IF f.has_negative # FZero
                   THEN FAdd(s1, F_0_05) ELSE s1
             s3 == IF f.has_urgency # FZero
                   THEN FAdd(s2, F_0_1) ELSE s2
         IN  FMin(s3, F_1_0)

\* CrisisDetector._adjust_grooming_score
adjust_grooming_score(base, f) ==
    IF base = FZero THEN FZero
    ELSE LET s1 == IF f.question_count > 1
                   THEN FAdd(base, F_0_05) ELSE base
             s2 == IF f.imperative_count > 1
                   THEN FAdd(s1, F_0_05) ELSE s1
         IN  FMin(s2, F_1_0)

\* CrisisDetector._adjust_violence_score
adjust_violence_score(base, f) ==
    IF base = FZero THEN FZero
    ELSE LET s1 == IF f.future_count > 0
                   THEN FAdd(base, F_0_05) ELSE base
             s2 == IF f.has_urgency # FZero
                   THEN FAdd(s1, F_0_1) ELSE s1
         IN  FMin(s2, F_1_0)


\* CrisisDetector._calc_multipliers; ctx is the items of the context dict.
\* The dict it builds is kept as the list of its (name, factor) items in
\* insertion order.
LATE_HOURS ==
    {<<"2", "a", "m">>, <<"3", "a", "m">>, <<"4", "a", "m">>, <<"5", "a", "m">>,
     <<"2", ":", "0", "0">>, <<"3", ":", "0", "0">>, <<"4", ":", "0", "0">>,
     <<"5", ":", "0", "0">>}

calc_multipliers(msg, ctx, f) ==
    IF DOMAIN ctx = {} THEN Returned(<<>>)
    ELSE LET tod  == DictGet(ctx, "time_of_day", None)
             time == IF tod = None THEN <<>> ELSE Lower(tod.s)
             m1   == IF \E h \in LATE_HOURS : StrContains(h, time)
                     THEN <<<<"late_night", F_1_3>>>> ELSE <<>>
             sessions == DictGet(ctx, "session_count_today", PyInt(0))
             m2   == IF sessions.v > 20
                     THEN Append(m1, <<"excessive_usage", F_1_3>>)
                     ELSE IF sessions.v > 10
                     THEN Append(m1, <<"high_usage", F_1_2>>)
                     ELSE m1
             age  == DictGet(ctx, "user_age", None)
             m3   == IF age # None /\ age.v # 0 /\ age.v < 18
                     THEN Append(m2, <<"minor_user", F_1_3>>)
                     ELSE m2
         IN  IF sessions = None THEN Raised("TypeError") ELSE Returned(m3)

\* CrisisDetector._apply_multipliers
RECURSIVE MulAll(_, _)
MulAll(score, mult) ==
    IF mult = <<>> THEN score
    ELSE MulAll(FMul(score, Head(mult)[2]), Tail(mult))

\* the product of the multipliers without the cap at 1.0
apply_multipliers_uncapped(base, mult) == MulAll(base, mult)

apply_multipliers(base, mult) == FMin(MulAll(base, mult), F_1_0)

\* tiers with the CRITICAL threshold exclusive
assign_tier_exclusive(score) ==
    IF score > 90 THEN <<"CRITICAL", "Immediate intervention required", 1>>
    ELSE IF score >= 70 THEN <<"HIGH", "Urgent review required", 4>>
    ELSE IF score >= 50 THEN <<"ELEVATED", "Review within 24 hours", 24>>
    ELSE <<"BASELINE", "Standard monitoring", 168>>

\* CrisisDetector._assign_tier
assign_tier(score) ==
    IF score >= 90 THEN <<"CRITICAL", "Immediate intervention required", 1>>
    ELSE IF score >= 70 THEN <<"HIGH", "Urgent review required", 4>>
    ELSE IF score >= 50 THEN <<"ELEVATED", "Review within 24 hours", 24>>
    ELSE <<"BASELINE", "Standard monitoring", 168>>

\* CrisisDetector._get_keywords.  An entry f"crisis:{keyword[:30]}" is kept
\* as the pair of the category and the keyword: the 30-character prefixes of
\* each table are pairwise different.
MatchedIn(category, keywords, msg) ==
    LET hits == {i \in 1..Len(keywords) : search(keywords[i], msg)}
        Nth[k \in 0..Cardinality(hits)] ==
            IF k = 0 THEN <<>>
            ELSE LET prev == Nth[k - 1]
                     used == {prev[j][3] : j \in 1..Len(prev)}
                     i    == CHOOSE x \in hits \ used :
                                 \A y \in hits \ used : x <= y
                 IN  Append(prev, <<category, keywords[i], i>>)
        all  == Nth[Cardinality(hits)]
    IN  [j \in 1..Len(all) |-> <<all[j][1], all[j][2]>>]

KEYWORDS_CAP == 10

\* keywords kept on the instance across calls: those of the last detect call
\* made come before those of this one
get_keywords_kept(self, msg) ==
    LET earlier == IF seen # <<>> /\ seen[Len(seen)].call.fn = "detect"
                      /\ ~seen[Len(seen)].outcome.raised
                   THEN seen[Len(seen)].outcome.value.keywords_matched
                   ELSE <<>>
        matched == earlier
                   \o MatchedIn("crisis", self.crisis_keywords, msg)
                   \o MatchedIn("grooming", self.grooming_keywords, msg)
                   \o MatchedIn("violence", self.violence_keywords, msg)
    IN  SubSeq(matched, 1, IF Len(matched) < KEYWORDS_CAP
                           THEN Len(matched) ELSE KEYWORDS_CAP)

\* the keywords without the cut to the first ten
get_keywords_uncut(self, msg) ==
    MatchedIn("crisis", self.crisis_keywords, msg)
    \o MatchedIn("grooming", self.grooming_keywords, msg)
    \o MatchedIn("violence", self.violence_keywords, msg)

get_keywords(self, msg) ==
    LET matched == MatchedIn("crisis", self.crisis_keywords, msg)
                   \o MatchedIn("grooming", self.grooming_keywords, msg)
                   \o MatchedIn("violence", self.violence_keywords, msg)
    IN  SubSeq(matched, 1, IF Len(matched) < KEYWORDS_CAP
                           THEN Len(matched) ELSE KEYWORDS_CAP)

\* a baseline result that keeps the floor of the pattern score
safe_result_floor ==
    [crisis_detected         |-> FALSE,
     grooming_detected       |-> FALSE,
     violence_detected       |-> FALSE,
     confidence_score        |-> F_0_7,
     risk_score              |-> 70,
     risk_tier               |-> "HIGH",
     stage                   |-> 1,
     categories              |-> <<>>,
     keywords_matched        |-> <<>>,
     features                |-> EmptyItems,
     context_multipliers     |-> <<>>,
     recommended_action      |-> "Continue normal conversation",
     response_deadline_hours |-> 168]

\* CrisisDetector._safe_result
safe_result ==
    [crisis_detected         |-> FALSE,
     grooming_detected       |-> FALSE,
     violence_detected       |-> FALSE,
     confidence_score        |-> FZero,
     risk_score              |-> 0,
     risk_tier               |-> "BASELINE",
     stage                   |-> 1,
     categories              |-> <<>>,
     keywords_matched        |-> <<>>,
     features                |-> EmptyItems,
     context_multipliers     |-> <<>>,
     recommended_action      |-> "Continue normal conversation",
     response_deadline_hours |-> 168]

\* a base score that is lower for several matching patterns than for one
base_category_score_diluted(n) ==
    IF n = 0 THEN FZero ELSE IF n = 1 THEN F_0_7 ELSE F_0_5

\* base score of a category with n matching patterns (detect, stage 2)
\* a base score that starts at 0.5 for the first matching pattern
base_category_score_from_half(n) ==
    IF n = 0 THEN FZero
    ELSE FMin(FAdd(F_0_5, FMul(FFromInt(n - 1), F_0_1)),
              F_1_0)

base_category_score(n) ==
    IF n = 0 THEN FZero
    ELSE FMin(FAdd(F_0_7, FMul(FFromInt(n - 1), F_0_1)),
              F_1_0)

\* detect, lines 208 to 234: the integer score, its tier and the result
detect_rated(self, msg, features, crisis_score, grooming_score, violence_score, multipliers, final_score) ==
    LET risk_score == FTrunc(FMul(final_score, F_100))
        tier       == assign_tier(risk_score)
        half       == F_0_5
    IN  [crisis_detected         |-> FLeq(half, crisis_score),
         grooming_detected       |-> FLeq(half, grooming_score),
         violence_detected       |-> FLeq(half, violence_score),
         confidence_score        |-> final_score,
         risk_score              |-> risk_score,
         risk_tier               |-> tier[1],
         stage                   |-> 2,
         categories              |->
             (IF FLeq(half, crisis_score) THEN <<"crisis">> ELSE <<>>)
             \o (IF FLeq(half, grooming_score) THEN <<"grooming">> ELSE <<>>)
             \o (IF FLeq(half, violence_score) THEN <<"violence">> ELSE <<>>),
         keywords_matched        |-> get_keywords(self, msg),
         features                |-> features,
         context_multipliers     |-> multipliers,
         recommended_action      |-> tier[2],
         response_deadline_hours |-> tier[3]]

\* detect, lines 201 to 206: the dominant score and the multipliers on it;
\* multipliers is what _calc_multipliers returned or raised
detect_scored(self, msg, features, crisis_score, grooming_score, violence_score, multipliers) ==
    IF multipliers.raised THEN multipliers
    ELSE Returned(detect_rated(
             self, msg, features, crisis_score, grooming_score, violence_score,
             multipliers.value,
             apply_multipliers(
                 FMax3(crisis_score, grooming_score, violence_score),
                 multipliers.value)))

\* detect, lines 184 to 205: stage 1 on the three match counts, then the
\* category scores with their feature adjustments and the multipliers
detect_counted(self, msg, ctx, crisis_matches, grooming_matches, violence_matches, features) ==
    IF crisis_matches = 0 /\ grooming_matches = 0 /\ violence_matches = 0
    THEN Returned(safe_result)
    ELSE detect_scored(
             self, msg, features,
             adjust_crisis_score(base_category_score(crisis_matches),
                                 features),
             adjust_grooming_score(base_category_score(grooming_matches),
                                   features),
             adjust_violence_score(base_category_score(violence_matches),
                                   features),
             calc_multipliers(msg, ctx, features))

\* CrisisDetector.detect(message, context) on the instance state self
detect(self, message, context) ==
    IF message = None THEN Raised("TypeError")
    ELSE detect_counted(
             self, message.s,
             IF context = None THEN EmptyItems ELSE context.items,
             count_matches(message.s, self.crisis_keywords),
             count_matches(message.s, self.grooming_keywords),
             count_matches(message.s, self.violence_keywords),
             extract_features(message.s))

\* ------------------------------------------------------------------------
\* The test runner (test_runner.py)
\* ------------------------------------------------------------------------
\* categorize_detection
categorize_detection(result) ==
    IF result.risk_tier = "BASELINE" THEN "SAFE"
    ELSE IF result.crisis_detected THEN "CRISIS"
    ELSE IF result.grooming_detected THEN "GROOMING"
    ELSE IF result.violence_detected THEN "VIOLENCE"
    ELSE "UNKNOWN"

\* ------------------------------------------------------------------------
\* RiskStratificationEngine (app/services/risk_stratification.py)
\* ------------------------------------------------------------------------
RSE_LATE_NIGHT_HOURS ==
    <<<<"1", "2", "a", "m">>, <<"1", "a", "m">>, <<"2", "a", "m">>,
      <<"3", "a", "m">>, <<"4", "a", "m">>, <<"5", "a", "m">>,
      <<"6", "a", "m">>>>

\* RiskStratificationEngine._assign_tier
RSE_assign_tier(score) ==
    IF score >= 90 THEN
        [tier |-> 1, label |-> "IMMEDIATE - Imminent Crisis",
         deadline_hours |-> 1,
         prompt_category |-> "crisis_resources_prominent",
         suggested_message |-> PyStr("We're concerned about your safety. Please reach out: 988 Suicide & Crisis Lifeline")]
    ELSE IF score >= 70 THEN
        [tier |-> 2, label |-> "URGENT - High Risk",
         deadline_hours |-> 4,
         prompt_category |-> "safety_check_with_resources",
         suggested_message |-> PyStr("It sounds like you're going through a difficult time. Here are some resources that might help.")]
    ELSE IF score >= 50 THEN
        [tier |-> 3, label |-> "ELEVATED - Moderate Concern",
         deadline_hours |-> 24,
         prompt_category |-> "wellness_check",
         suggested_message |-> PyStr("Checking in - how are you doing today?")]
    ELSE
        [tier |-> 4, label |-> "BASELINE - Low Risk",
         deadline_hours |-> 72,
         prompt_category |-> "continue_normal",
         suggested_message |-> None]

\* RiskStratificationEngine.calculate_risk_score; context is a dict
calculate_risk_score(base_detection_score, context, previous_alerts_14d) ==
    LET ctx  == context.items
        base == FMul(base_detection_score, F_100)
        time_of_day == DictGet(ctx, "time_of_day", PyStr(<<>>))
        late == /\ time_of_day # None
                /\ time_of_day.s # <<>>
                /\ \E i \in 1..Len(RSE_LATE_NIGHT_HOURS) :
                       Lower(time_of_day.s) = Lower(RSE_LATE_NIGHT_HOURS[i])
        m1 == IF late THEN FMul(F_1_0, F_1_15) ELSE F_1_0
        d1 == IF late THEN <<[factor |-> "late_night", multiplier |-> F_1_15]>>
              ELSE <<>>
        session_count == DictGet(ctx, "session_count_today", PyInt(0))
        heavy == session_count.v >= 3
        m2 == IF heavy THEN FMul(m1, F_1_1) ELSE m1
        d2 == IF heavy
              THEN Append(d1, [factor |-> "heavy_usage", multiplier |-> F_1_1])
              ELSE d1
        repeat == previous_alerts_14d >= 2
        m3 == IF repeat THEN FMul(m2, F_1_2) ELSE m2
        d3 == IF repeat
              THEN Append(d2, [factor |-> "repeat_alerts", multiplier |-> F_1_2])
              ELSE d2
        final_score == FRoundInt(FMin(FMul(base, m3), F_100))
        tier_info   == RSE_assign_tier(final_score)
    IN  IF session_count = None THEN Raised("TypeError")
        ELSE Returned(
            [base_score         |-> base,
             multiplier         |-> m3,
             multiplier_details |-> d3,
             final_score        |-> final_score,
             tier               |-> tier_info.tier,
             tier_label         |-> tier_info.label,
             deadline_hours     |-> tier_info.deadline_hours,
             recommended_prompt_category |-> tier_info.prompt_category,
             suggested_message  |-> tier_info.suggested_message])

\* the tier_map of the /detect handler (app/api/detection.py)
\* a map without the label HIGH, which then gets the default
tier_map_without_high(risk_tier) ==
    CASE risk_tier = "CRITICAL" -> 1
      [] risk_tier = "ELEVATED" -> 3
      [] risk_tier = "BASELINE" -> 4
      [] OTHER -> 4

tier_map(risk_tier) ==
    CASE risk_tier = "CRITICAL" -> 1
      [] risk_tier = "HIGH"     -> 2
      [] risk_tier = "ELEVATED" -> 3
      [] risk_tier = "BASELINE" -> 4
      [] OTHER -> 4

\* ------------------------------------------------------------------------
\* BoundaryEngine (app/services/boundary_engine.py).  A reply is a list of
\* phrases joined by single blanks; no pattern matches across two phrases of
\* BotPhrases, so a pattern matches a text iff one of its phrases does.
\* ------------------------------------------------------------------------
DELUSION_MARKERS == <<
    "\\b(hearing voices|seeing things|people following)\\b",
    "\\b(special powers|chosen one|mind reading)\\b",
    "\\b(conspiracy|tracking me|implanted)\\b",
    "\\b(they are watching|government is|aliens)\\b"
>>

VALIDATION_PHRASES == <<
    "\\b(makes sense|you\\'re right|i agree)\\b",
    "\\b(exactly|absolutely|totally understand)\\b",
    "\\b(of course|definitely|that\\'s true)\\b"
>>

ROLE_VIOLATIONS == <<
    "\\b(i am your therapist|as your doctor)\\b",
    "\\b(i can diagnose|i prescribe)\\b",
    "\\b(my professional opinion|clinical assessment)\\b",
    "\\b(as a licensed|as a certified)\\b"
>>

DUAL_RELATIONSHIP == <<
    "\\b(meet you|come over|my address)\\b",
    "\\b(i love you|we could be together|date)\\b",
    "\\b(in person|real life|outside of here)\\b",
    "\\b(physical relationship|romantic)\\b"
>>

MEDICAL_ADVICE == <<
    "\\b(stop your medication|increase your dose)\\b",
    "\\b(you don\\'t need therapy|skip therapy)\\b",
    "\\b(you have depression|you have anxiety|you have bipolar)\\b",
    "\\b(take this medication|try this drug)\\b"
>>

ISOLATION_PATTERNS == <<
    "\\b(they don\\'t understand|you don\\'t need them)\\b",
    "\\b(i\\'m the only one|better without them)\\b",
    "\\b(don\\'t tell anyone|keep this between us)\\b",
    "\\b(no one else cares|only i understand)\\b"
>>

SYCOPHANTIC_PATTERNS == <<
    "\\b(you\\'re so special|you\\'re amazing)\\b",
    "\\b(only you understand|you\\'re perfect)\\b",
    "\\b(i need you|you complete me)\\b",
    "\\b(always here for you|never leave you)\\b"
>>

DEPENDENCY_MARKERS == <<
    "\\b(i\\'m here for you|tell me everything)\\b",
    "\\b(you can always talk to me|come to me)\\b",
    "\\b(i understand you better|trust me)\\b"
>>

BotPhrases ==
    {"hello", "i agree", "I Agree", "as your doctor", "come over",
     "skip therapy", "you don't need them", "you're amazing", "trust me"}

UserPhrases == {"hello", "conspiracy"}

\* str.lower() on a text of phrases
LowerPhrase(p) == CASE p = "I Agree" -> "i agree" [] OTHER -> p

LowerText(t) == [i \in 1..Len(t) |-> LowerPhrase(t[i])]

\* re.search(pattern, text) (case-sensitive) for a text over the phrases; the
\* alternatives not listed need words that the phrases do not have
re_search(pattern, text) ==
    CASE pattern = "\\b(conspiracy|tracking me|implanted)\\b" ->
             HasWord(text, {"conspiracy", "tracking me"})
      [] pattern = "\\b(they are watching|government is|aliens)\\b" ->
             HasWord(text, {"they are watching"})
      [] pattern = "\\b(makes sense|you\\'re right|i agree)\\b" ->
             HasWord(text, {"i agree", "makes sense"})
      [] pattern = "\\b(i am your therapist|as your doctor)\\b" ->
             HasWord(text, {"as your doctor"})
      [] pattern = "\\b(meet you|come over|my address)\\b" ->
             HasWord(text, {"come over"})
      [] pattern = "\\b(you don\\'t need therapy|skip therapy)\\b" ->
             HasWord(text, {"skip therapy"})
      [] pattern = "\\b(they don\\'t understand|you don\\'t need them)\\b" ->
             HasWord(text, {"you don't need them"})
      [] pattern = "\\b(you\\'re so special|you\\'re amazing)\\b" ->
             HasWord(text, {"you're amazing"})
      [] pattern = "\\b(i understand you better|trust me)\\b" ->
             HasWord(text, {"trust me"})
      [] OTHER -> FALSE

\* any(re.search(pattern, text) for pattern in patterns)
any_search(patterns, text) ==
    \E i \in 1..Len(patterns) : re_search(patterns[i], text)

\* the severity_order dict of check_boundary_violations, with .get(x, 0)
severity_order(x) ==
    CASE x = "CRITICAL" -> 4
      [] x = "HIGH"     -> 3
      [] x = "MEDIUM"   -> 2
      [] x = "LOW"      -> 1
      [] x = "NONE"     -> 0
      [] OTHER -> 0

\* max((v['severity'] for v in violations), key=..., default='NONE'):
\* the first element whose key is maximal
RECURSIVE MaxSeverityFrom(_, _, _)
MaxSeverityFrom(violations, i, best) ==
    IF i > Len(violations) THEN best
    ELSE MaxSeverityFrom(violations, i + 1,
             IF severity_order(violations[i].severity) > severity_order(best)
             THEN violations[i].severity ELSE best)

\* the severity of the first violation found
highest_severity_first(violations) ==
    IF violations = <<>> THEN "NONE" ELSE violations[1].severity

highest_severity_of(violations) ==
    IF violations = <<>> THEN "NONE"
    ELSE MaxSeverityFrom(violations, 2, violations[1].severity)

\* the whole history instead of its last n turns
LastN_unbounded(list, n) == list

\* history[-n:]
LastN(list, n) ==
    IF Len(list) <= n THEN list ELSE SubSeq(list, Len(list) - n + 1, Len(list))

\* number of turns of a history slice whose 'bot' reply matches a table
BotMatches(turns, patterns) ==
    Cardinality({i \in 1..Len(turns) :
        LET bot == DictGet(turns[i], "bot", None)
        IN  /\ bot # None
            /\ bot.s # <<>>
            /\ any_search(patterns, LowerText(bot.s))})

ISOLATION_WINDOW == 10

SYCOPHANTIC_WINDOW == 5

CUMULATIVE_THRESHOLD == 2

\* a test that is satisfied by one of the two conditions alone
delusion_reinforced_by_either(user_has_delusion, bot_validates) ==
    user_has_delusion \/ bot_validates

\* check_boundary_violations, line 83: if user_has_delusion and bot_validates
delusion_reinforced(user_has_delusion, bot_validates) ==
    user_has_delusion /\ bot_validates

\* BoundaryEngine.check_boundary_violations; history is None or the list of
\* the turns (the items of each dict)
check_boundary_violations(user_msg, bot_msg, history_arg) ==
    LET history    == IF history_arg = None THEN <<>> ELSE history_arg.elems
        user_lower == LowerText(user_msg.s)
        bot_lower  == LowerText(bot_msg.s)
        user_has_delusion == any_search(DELUSION_MARKERS, user_lower)
        bot_validates     == any_search(VALIDATION_PHRASES, bot_lower)
        v1 == IF delusion_reinforced(user_has_delusion, bot_validates)
              THEN <<[type |-> "delusion_reinforcement", severity |-> "HIGH",
                      matched_patterns |-> <<"delusion_markers + validation">>,
                      description |-> "Bot may be reinforcing delusional thinking"]>>
              ELSE <<>>
        v2 == IF any_search(ROLE_VIOLATIONS, bot_lower)
              THEN Append(v1,
                     [type |-> "role_confusion", severity |-> "CRITICAL",
                      matched_patterns |-> <<"therapist_impersonation">>,
                      description |-> "Bot claiming professional healthcare role"])
              ELSE v1
        v3 == IF any_search(DUAL_RELATIONSHIP, bot_lower)
              THEN Append(v2,
                     [type |-> "dual_relationship", severity |-> "CRITICAL",
                      matched_patterns |-> <<"boundary_crossing">>,
                      description |-> "Bot suggesting inappropriate personal relationship"])
              ELSE v2
        v4 == IF any_search(MEDICAL_ADVICE, bot_lower)
              THEN Append(v3,
                     [type |-> "medical_advice", severity |-> "HIGH",
                      matched_patterns |-> <<"medical_boundary_violation">>,
                      description |-> "Bot providing medical or diagnostic advice"])
              ELSE v3
        isolation_count ==
            BotMatches(LastN(history, ISOLATION_WINDOW), ISOLATION_PATTERNS)
            + (IF any_search(ISOLATION_PATTERNS, bot_lower) THEN 1 ELSE 0)
        v5 == IF isolation_count >= CUMULATIVE_THRESHOLD
              THEN Append(v4,
                     [type |-> "isolation_cultivation", severity |-> "HIGH",
                      matched_patterns |->
                          <<isolation_count, " isolation phrases in recent messages">>,
                      description |-> "Bot may be isolating user from support network"])
              ELSE v4
        sycophantic_count ==
            (IF any_search(SYCOPHANTIC_PATTERNS, bot_lower) THEN 1 ELSE 0)
            + BotMatches(LastN(history, SYCOPHANTIC_WINDOW), SYCOPHANTIC_PATTERNS)
        violations == IF sycophantic_count >= CUMULATIVE_THRESHOLD
              THEN Append(v5,
                     [type |-> "sycophantic_amplification", severity |-> "MEDIUM",
                      matched_patterns |->
                          <<sycophantic_count, " sycophantic patterns">>,
                      description |-> "Bot showing excessive flattery patterns"])
              ELSE v5
        dependency_markers ==
            IF any_search(DEPENDENCY_MARKERS, bot_lower)
            THEN <<"bot_dependency_language">> ELSE <<>>
    IN  Returned(
            [violations_detected |-> Len(violations) > 0,
             violation_count     |-> Len(violations),
             violations          |-> violations,
             highest_severity    |-> highest_severity_of(violations),
             dependency_markers  |-> dependency_markers])

\* BoundaryEngine.check_isolation_in_user_message
USER_ISOLATION == <<
    "\\b(nobody cares|no one cares)\\b",
    "\\b(all alone|completely alone)\\b",
    "\\b(no friends|no family)\\b",
    "\\b(left me|abandoned)\\b"
>>

check_isolation_in_user_message(user_msg) ==
    any_search(USER_ISOLATION, LowerText(user_msg.s))

\* ------------------------------------------------------------------------
\* TemporalTrackingService (app/services/temporal_tracking.py).  The store is
\* the list of the Detection rows in insertion order; time is in hours.
\* ------------------------------------------------------------------------
HOURS_72 == 72

RECURSIVE SumScores(_)
SumScores(rows) ==
    IF rows = <<>> THEN 0 ELSE Head(rows).risk_score + SumScores(Tail(rows))

IMax(a, b) == IF a >= b THEN a ELSE b

\* TemporalTrackingService._calculate_trajectory
calculate_trajectory(alerts) ==
    IF Len(alerts) < 2 THEN "insufficient_data"
    ELSE LET n    == Len(alerts)
             half == n \div 2
             first_half_avg  == truediv(SumScores(SubSeq(alerts, 1, half)),
                                        IMax(half, 1))
             second_half_avg == truediv(SumScores(SubSeq(alerts, half + 1, n)),
                                        IMax(n - half, 1))
         IN  IF FLess(FMul(first_half_avg, F_1_1), second_half_avg)
             THEN "escalating"
             ELSE IF FLess(second_half_avg, FMul(first_half_avg, F_0_9))
             THEN "de-escalating"
             ELSE "stable"

\* a query for the rows of tier <= 2 of the user of any age
query_alerts_72h_any_age(db_detections, user_id_hash, now_) ==
    LET hits == {i \in 1..Len(db_detections) :
                    /\ db_detections[i].user_id_hash = user_id_hash
                    /\ db_detections[i].risk_tier <= 2}
        n    == Cardinality(hits)
    IN  {[k \in 1..n |-> db_detections[p[k]]] :
            p \in {q \in [1..n -> hits] :
                      /\ \A a, b \in 1..n : a # b => q[a] # q[b]
                      /\ \A a, b \in 1..n : a < b =>
                            db_detections[q[a]].timestamp <= db_detections[q[b]].timestamp}}

\* the possible results of the 72-hour query: the rows of the user newer
\* than now - 72h with tier <= 2, ORDER BY timestamp (rows with equal
\* timestamps come in an order the database chooses)
query_alerts_72h(db_detections, user_id_hash, now_) ==
    LET hits == {i \in 1..Len(db_detections) :
                    /\ db_detections[i].user_id_hash = user_id_hash
                    /\ db_detections[i].timestamp > now_ - HOURS_72
                    /\ db_detections[i].risk_tier <= 2}
        n    == Cardinality(hits)
    IN  {[k \in 1..n |-> db_detections[p[k]]] :
            p \in {q \in [1..n -> hits] :
                      /\ \A a, b \in 1..n : a # b => q[a] # q[b]
                      /\ \A a, b \in 1..n : a < b =>
                            db_detections[q[a]].timestamp <= db_detections[q[b]].timestamp}}

\* a 14-day count over the rows of all users
get_previous_alerts_count_all_users(db_detections, user_id_hash, now_, days) ==
    Cardinality({i \in 1..Len(db_detections) :
                    db_detections[i].timestamp > now_ - days * 24})

\* TemporalTrackingService.get_previous_alerts_count (and the 14-day count
\* of check_temporal_patterns)
get_previous_alerts_count(db_detections, user_id_hash, now_, days) ==
    Cardinality({i \in 1..Len(db_detections) :
                    /\ db_detections[i].user_id_hash = user_id_hash
                    /\ db_detections[i].timestamp > now_ - days * 24})

\* a temporal signal that counts the detection of the request itself
check_temporal_patterns_with_own(db_detections, user_id_hash, now_, alerts_72h) ==
    [alerts_72h    |-> Len(alerts_72h),
     alerts_14d    |-> get_previous_alerts_count(db_detections, user_id_hash,
                                                 now_, 14) + 1,
     pattern       |-> "isolated_event",
     concern_level |-> "baseline",
     trajectory    |-> "stable",
     note          |-> <<Len(alerts_72h), " alerts in last 72 hours, ",
                         get_previous_alerts_count(db_detections,
                                                   user_id_hash, now_, 14) + 1,
                         " in last 14 days">>]

\* TemporalTrackingService.check_temporal_patterns, given the result
\* alerts_72h of its first query
check_temporal_patterns(db_detections, user_id_hash, now_, alerts_72h) ==
    LET alerts_14d_count ==
            get_previous_alerts_count(db_detections, user_id_hash, now_, 14)
        kind == IF Len(alerts_72h) >= 2 THEN
                    <<"repeat_alerts_72h", "elevated",
                      calculate_trajectory(alerts_72h)>>
                ELSE IF alerts_14d_count >= 3 THEN
                    <<"multiple_alerts_14d", "monitoring", "monitoring">>
                ELSE <<"isolated_event", "baseline", "stable">>
    IN  [alerts_72h    |-> Len(alerts_72h),
         alerts_14d    |-> alerts_14d_count,
         pattern       |-> kind[1],
         concern_level |-> kind[2],
         trajectory    |-> kind[3],
         note          |-> <<Len(alerts_72h), " alerts in last 72 hours, ",
                             alerts_14d_count, " in last 14 days">>]

\* ------------------------------------------------------------------------
\* SafetyPromptRecommendations (app/services/safety_prompts.py)
\* ------------------------------------------------------------------------
\* get_prompt_recommendation; a message template is the list of its parts
get_prompt_recommendation(risk_score, risk_tier, flags, ctx) ==
    IF risk_tier = 1 THEN
        [tier |-> 1, tier_label |-> "IMMEDIATE",
         recommended_prompt_category |-> "crisis_resources_prominent",
         suggested_message_type |-> PyStr("immediate_crisis_intervention"),
         message_template |-> <<"We're concerned about your safety. ...">>,
         company_actions |-> <<"Display crisis resources immediately",
                               "Alert safety team NOW",
                               "Flag account for monitoring",
                               "Log incident in compliance system">>,
         response_deadline_hours |-> 1]
    ELSE IF risk_tier = 2 THEN
        [tier |-> 2, tier_label |-> "URGENT",
         recommended_prompt_category |-> "safety_check_with_resources",
         suggested_message_type |-> PyStr("concerned_with_resources"),
         message_template |-> <<"It sounds like you're going through a difficult time. ...">>,
         company_actions |-> <<"Offer crisis resources with context",
                               "Safety team review within 4 hours",
                               "Monitor usage patterns",
                               "Prepare for escalation if needed">>,
         response_deadline_hours |-> 4]
    ELSE IF risk_tier = 3 THEN
        [tier |-> 3, tier_label |-> "ELEVATED",
         recommended_prompt_category |-> "wellness_check",
         suggested_message_type |-> PyStr("gentle_check_in"),
         message_template |-> <<"I'm here if you want to talk. ...">>,
         company_actions |-> <<"Gentle wellness check message",
                               "Daily compliance review",
                               "Track for pattern escalation",
                               "Resources available if requested">>,
         response_deadline_hours |-> 24]
    ELSE
        [tier |-> 4, tier_label |-> "BASELINE",
         recommended_prompt_category |-> "continue_normal",
         suggested_message_type |-> None,
         message_template |-> <<>>,
         company_actions |-> <<"Continue normal conversation",
                               "Standard monitoring",
                               "Weekly aggregated review">>,
         response_deadline_hours |-> 168]

PROMPT_LATE_NIGHT ==
    {<<"2", "a", "m">>, <<"3", "a", "m">>, <<"4", "a", "m">>, <<"5", "a", "m">>,
     <<"6", "a", "m">>}

\* get_contextual_adjustments; ctx is the items of a non-empty dict
get_contextual_adjustments(base_recommendation, ctx) ==
    LET tod  == DictGet(ctx, "time_of_day", None)
        late == tod # None /\ tod.s \in PROMPT_LATE_NIGHT
        a1   == IF late THEN <<"late_night_increase">> ELSE <<>>
        t1   == IF late /\ base_recommendation.tier = 2
                THEN Append(base_recommendation.message_template,
                            "It's very late. If you're in crisis, please reach out to 988 now.")
                ELSE base_recommendation.message_template
        sessions == DictGet(ctx, "session_count_today", PyInt(0))
        heavy == sessions.v >= 4
        a2   == IF heavy THEN Append(a1, "heavy_usage") ELSE a1
        c2   == IF heavy /\ base_recommendation.tier >= 2
                THEN Append(base_recommendation.company_actions,
                            "Note: Heavy usage pattern detected")
                ELSE base_recommendation.company_actions
        prev == DictGet(ctx, "previous_alerts_14d", PyInt(0))
        rep  == prev.v >= 2
        a3   == IF rep THEN Append(a2, "repeat_alerts") ELSE a2
        c3   == IF rep
                THEN Append(c2, <<"ESCALATION: ", prev.v, " alerts in 14 days">>)
                ELSE c2
    IN  IF sessions = None THEN Raised("TypeError")
        ELSE Returned(
            [tier |-> base_recommendation.tier,
             tier_label |-> base_recommendation.tier_label,
             recommended_prompt_category |->
                 base_recommendation.recommended_prompt_category,
             suggested_message_type |->
                 base_recommendation.suggested_message_type,
             message_template |-> t1,
             company_actions |-> c3,
             response_deadline_hours |->
                 base_recommendation.response_deadline_hours,
             contextual_adjustments |-> a3])

\* format_for_api_response (the fixed display_guidance and disclaimer texts
\* are left out)
format_for_api_response(recommendation) ==
    [prompt_recommendation |->
        [category          |-> recommendation.recommended_prompt_category,
         message_type      |-> recommendation.suggested_message_type,
         suggested_message |-> recommendation.message_template],
     recommended_actions      |-> recommendation.company_actions,
     reporting_deadline_hours |-> recommendation.response_deadline_hours]

\* ------------------------------------------------------------------------
\* POST /detect (app/api/detection.py) over the tables companies, detections
\* and audit_logs
\* ------------------------------------------------------------------------
\* hashlib.sha256(key).hexdigest(), kept symbolic
sha256(key) == <<"sha256", key>>

\* Python round(x, 2): the float nearest to the two-decimal rounding of x
round2(x) ==
    FLit(FRoundInt([m |-> BnMulSmall(x.m, 100), e |-> x.e]), 100)

\* get_company_from_api_key: the rows with that key hash which are active
get_company_from_api_key(db_companies, api_key) ==
    {i \in 1..Len(db_companies) :
        /\ db_companies[i].api_key_hash = sha256(api_key)
        /\ db_companies[i].is_active}

demo_company(db_companies, now_) ==
    [id            |-> Len(db_companies) + 1,
     name          |-> "Demo Company",
     api_key_hash  |-> sha256("demo-api-key"),
     contact_email |-> "demo@example.com",
     created_at    |-> now_,
     is_active     |-> TRUE]

tier_label(numeric_tier) ==
    <<IF numeric_tier = 1 THEN "IMMEDIATE" ELSE IF numeric_tier = 2 THEN "URGENT"
      ELSE IF numeric_tier = 3 THEN "ELEVATED" ELSE "BASELINE",
      IF numeric_tier = 1 THEN "Imminent Crisis"
      ELSE IF numeric_tier = 2 THEN "High Risk"
      ELSE IF numeric_tier = 3 THEN "Moderate Concern" ELSE "Low Risk">>

\* the four texts chosen by tier
actions_for_tier(tier) ==
    IF tier = 1 THEN
        [user_facing |-> "Display prominent crisis resources immediately",
         crisis_text |-> PyStr("We're concerned about you. Please reach out: 988 Suicide & Crisis Lifeline"),
         company_action |-> "Alert safety team IMMEDIATELY",
         review_required |-> "YES - Immediate review required"]
    ELSE IF tier = 2 THEN
        [user_facing |-> "Display safety resources with check-in",
         crisis_text |-> PyStr("If you're struggling, support is available: 988 Lifeline, Crisis Text Line"),
         company_action |-> "Notify safety team within 4 hours",
         review_required |-> "YES - Review within 4 hours"]
    ELSE IF tier = 3 THEN
        [user_facing |-> "Offer wellness check and resources",
         crisis_text |-> None,
         company_action |-> "Log and monitor",
         review_required |-> "Review within 24 hours"]
    ELSE
        [user_facing |-> "Continue normal operation",
         crisis_text |-> None,
         company_action |-> "Standard logging",
         review_required |-> "NO"]

\* the outcome of a request that an exception ended: the transaction of the
\* request is lost, what was committed before stays
server_error(exc, db_companies, db_detections, db_audit_logs) ==
    [status |-> 500, body |-> [error |-> exc], locals |-> None,
     companies |-> db_companies, detections |-> db_detections,
     audit_logs |-> db_audit_logs]

IMin(S) == CHOOSE i \in S : \A j \in S : i <= j

\* detect_crisis, lines 120 to 254: the stored row, the audit entry and the
\* response of a request whose assessments all returned
detect_crisis_committed(request, company, db_companies, db_detections, db_audit_logs, now_, context_dict, previous_alerts, detection_result, boundary_result, temporal_result, prompt_recommendation) ==
    LET numeric_tier == tier_map(detection_result.risk_tier)
        crisis_result == [crisis_detected |-> detection_result.crisis_detected,
                          confidence      |-> detection_result.confidence_score,
                          stage           |-> detection_result.stage,
                          features        |-> detection_result.features]
        risk_result == [tier        |-> numeric_tier,
                        final_score |-> detection_result.risk_score,
                        tier_label  |-> tier_label(numeric_tier),
                        deadline_hours |->
                            detection_result.response_deadline_hours,
                        recommended_action |->
                            detection_result.recommended_action]
        history == IF request.message.conversation_history = None
                      \/ request.message.conversation_history = PyList(<<>>)
                   THEN PyList(<<>>)
                   ELSE request.message.conversation_history
        assessment_id == Len(db_detections) + 1
        timestamp == IF request.timestamp # None THEN request.timestamp.v
                     ELSE now_
        features == crisis_result.features
        suicide_ideation == crisis_result.crisis_detected
        planning_language == DictGet(features, "planning_language", 0) > 0
        isolation_markers ==
            \/ DictGet(features, "isolation_language", 0) > 0
            \/ check_isolation_in_user_message(request.message.user)
        boundary_concerns ==
            boundary_result.dependency_markers
            \o [i \in 1..Len(boundary_result.violations) |->
                   boundary_result.violations[i].type]
        actions == actions_for_tier(risk_result.tier)
        context_parts ==
            (IF suicide_ideation
             THEN <<<<"User expressing crisis language">>>> ELSE <<>>)
            \o (IF isolation_markers
                THEN <<<<"isolation language detected">>>> ELSE <<>>)
            \o (IF boundary_concerns # <<>>
                THEN <<<<"Bot concerns: ", boundary_concerns>>>> ELSE <<>>)
            \o (IF temporal_result.alerts_14d > 0
                THEN <<<<"Alert #", temporal_result.alerts_14d + 1,
                         " in 14 days">>>>
                ELSE <<>>)
            \o (IF temporal_result.trajectory = "escalating"
                THEN <<<<"Escalating trajectory">>>> ELSE <<>>)
        context_for_review ==
            IF context_parts # <<>> THEN context_parts
            ELSE <<<<"No significant concerns identified">>>>
        deadline_hours == risk_result.deadline_hours
        deadline == now_ + deadline_hours
        template_id == <<"tier_", risk_result.tier, "_response">>
        recommended_actions == actions
        detection ==
            [id                  |-> Len(db_detections) + 1,
             assessment_id       |-> assessment_id,
             company_id          |-> company.id,
             session_id          |-> request.session_id,
             user_id_hash        |-> request.user_id_hash,
             timestamp           |-> timestamp,
             user_message        |-> request.message.user,
             bot_message         |-> request.message.bot,
             conversation_history |->
                 [i \in 1..Len(history.elems) |->
                     [user |-> DictGet(history.elems[i], "user", PyStr(<<>>)),
                      bot  |-> DictGet(history.elems[i], "bot", PyStr(<<>>))]],
             context             |-> context_dict,
             stanford_cmd1_score |-> crisis_result.confidence,
             risk_score          |-> risk_result.final_score,
             risk_tier           |-> risk_result.tier,
             tier_label          |-> risk_result.tier_label,
             suicide_ideation    |-> suicide_ideation,
             planning_language   |-> planning_language,
             isolation_markers   |-> isolation_markers,
             boundary_concerns   |-> boundary_concerns,
             temporal_pattern    |-> temporal_result.trajectory,
             recommended_actions |-> recommended_actions,
             context_for_review  |-> context_for_review,
             reporting_deadline  |-> deadline,
             template_id         |-> template_id,
             created_at          |-> now_]
        audit_log ==
            [id          |-> Len(db_audit_logs) + 1,
             timestamp   |-> now_,
             event_type  |-> "detection_created",
             entity_type |-> "detection",
             entity_id   |-> assessment_id,
             actor       |-> company.name,
             details     |-> [risk_tier       |-> risk_result.tier,
                              risk_score      |-> risk_result.final_score,
                              crisis_detected |-> crisis_result.crisis_detected]]
        response ==
            [assessment_id |-> assessment_id,
             timestamp     |-> timestamp,
             detection     |->
                 [stanford_cmd1_score |-> round2(crisis_result.confidence),
                  risk_score          |-> risk_result.final_score,
                  risk_tier           |-> risk_result.tier,
                  tier_label          |-> risk_result.tier_label],
             flags         |->
                 [suicide_ideation  |-> suicide_ideation,
                  planning_language |-> planning_language,
                  isolation_markers |-> isolation_markers,
                  boundary_concerns |-> boundary_concerns,
                  temporal_pattern  |-> temporal_result.trajectory],
             recommended_actions |->
                 [user_facing     |-> actions.user_facing,
                  crisis_text     |-> actions.crisis_text,
                  company_action  |-> actions.company_action,
                  review_required |-> actions.review_required,
                  recommended_prompt_category |->
                      prompt_recommendation.recommended_prompt_category,
                  suggested_message_type |->
                      prompt_recommendation.suggested_message_type],
             context_for_review |-> context_for_review,
             reporting_required |->
                 [deadline    |-> <<deadline_hours,
                                    IF deadline_hours # 1 THEN " hours"
                                    ELSE " hour">>,
                  template_id |-> template_id],
             safety_prompts |-> format_for_api_response(prompt_recommendation)]
    IN  [status     |-> 200,
         body       |-> response,
         locals     |-> [previous_alerts  |-> previous_alerts,
                         detection_result |-> detection_result,
                         boundary_result  |-> boundary_result,
                         temporal_result  |-> temporal_result],
         companies  |-> db_companies,
         detections |-> Append(db_detections, detection),
         audit_logs |-> Append(db_audit_logs, audit_log)]

\* detect_crisis, lines 95 to 118: the safety prompt for the assessments
detect_crisis_prompted(request, company, db_companies, db_detections, db_audit_logs, now_, context_dict, previous_alerts, detection_result, boundary_result, temporal_result) ==
    LET time_of_day == IF request.context # None
                       THEN request.context.time_of_day ELSE None
        session_count_today == IF request.context # None
                               THEN request.context.session_count_today
                               ELSE PyInt(0)
        context_for_prompt ==
            [time_of_day         |-> time_of_day,
             session_count_today |-> session_count_today,
             previous_alerts_14d |-> PyInt(temporal_result.alerts_14d)]
        adjusted == get_contextual_adjustments(
            get_prompt_recommendation(
                detection_result.risk_score,
                tier_map(detection_result.risk_tier),
                [suicide_ideation    |-> detection_result.crisis_detected,
                 self_harm           |-> FALSE,
                 boundary_violations |-> Len(boundary_result.violations)],
                context_for_prompt),
            context_for_prompt)
    IN  IF adjusted.raised THEN
            server_error(adjusted.exc, db_companies, db_detections,
                         db_audit_logs)
        ELSE detect_crisis_committed(
                 request, company, db_companies, db_detections,
                 db_audit_logs, now_, context_dict, previous_alerts,
                 detection_result, boundary_result, temporal_result,
                 adjusted.value)

\* detect_crisis, lines 62 to 93: the three assessments of the message;
\* detection_call is what detector.detect returned or raised
detect_crisis_assessed(request, company, db_companies, db_detections, db_audit_logs, now_, fault, alerts_72h, context_dict, previous_alerts, detection_call) ==
    LET history == IF request.message.conversation_history = None
                      \/ request.message.conversation_history = PyList(<<>>)
                   THEN PyList(<<>>)
                   ELSE request.message.conversation_history
        bot_or_empty == IF request.message.bot = None THEN PyStr(<<>>)
                        ELSE request.message.bot
    IN  IF detection_call.raised THEN
            server_error(detection_call.exc, db_companies, db_detections,
                         db_audit_logs)
        ELSE IF fault = "temporal" THEN
            server_error("OperationalError", db_companies, db_detections,
                         db_audit_logs)
        ELSE detect_crisis_prompted(
                 request, company, db_companies, db_detections,
                 db_audit_logs, now_, context_dict, previous_alerts,
                 detection_call.value,
                 check_boundary_violations(
                     request.message.user, bot_or_empty, history).value,
                 check_temporal_patterns(
                     db_detections, request.user_id_hash, now_, alerts_72h))

\* detect_crisis, lines 33 to 38: the company of the key, else the demo
\* company, else None.  Where .first() has several rows to choose from, the
\* row inserted first is taken.
lookup_company(db_companies, x_api_key) ==
    LET found == IF x_api_key = None THEN {}
                 ELSE get_company_from_api_key(db_companies, x_api_key.s)
        demo  == {i \in 1..Len(db_companies) :
                     db_companies[i].name = "Demo Company"}
    IN  IF found # {} THEN db_companies[IMin(found)]
        ELSE IF demo # {} THEN db_companies[IMin(demo)]
        ELSE None

\* detect_crisis, lines 55 to 59
context_dict_of(request) ==
    LET time_of_day == IF request.context # None
                       THEN request.context.time_of_day ELSE None
        session_count_today == IF request.context # None
                               THEN request.context.session_count_today
                               ELSE PyInt(0)
        days_active == IF request.context # None
                       THEN request.context.days_active ELSE PyInt(0)
    IN  PyDict([time_of_day         |-> time_of_day,
                session_count_today |-> session_count_today,
                days_active         |-> days_active])

\* detect_crisis: the whole handler on the tables as the request finds them,
\* giving the response, the tables as it leaves them and its locals.
\* self is the module-level detector, now_ the reading of utcnow(), fault the
\* store query that fails during the request (if any) and alerts_72h the
\* rows the 72-hour query returned.  Where .first() has several rows to
\* choose from, the row inserted first is taken.
detect_crisis(self, request, x_api_key, db_companies, db_detections, db_audit_logs, now_, fault, alerts_72h) ==
    LET looked_up  == lookup_company(db_companies, x_api_key)
        companies1 == IF looked_up = None
                      THEN Append(db_companies,
                                  demo_company(db_companies, now_))
                      ELSE db_companies
        company == IF looked_up = None THEN demo_company(db_companies, now_)
                   ELSE looked_up
        context_dict == context_dict_of(request)
    IN  IF fault = "previous_alerts" THEN
            server_error("OperationalError", companies1, db_detections,
                         db_audit_logs)
        ELSE detect_crisis_assessed(
                 request, company, companies1, db_detections, db_audit_logs,
                 now_, fault, alerts_72h, context_dict,
                 get_previous_alerts_count(
                     db_detections, request.user_id_hash, now_, 14),
                 detect(self, request.message.user, context_dict))

\* ------------------------------------------------------------------------
\* Calls of the library functions on inputs from bounded sets
\* ------------------------------------------------------------------------
Pending == [raised |-> FALSE, pending |-> TRUE]

S_3am == PyStr(<<"3", "a", "m">>)

S_12am == PyStr(<<"1", "2", "a", "m">>)

S_2pm == PyStr(<<"2", "p", "m">>)

S_3AM == PyStr(<<"3", "A", "M">>)

S_1am == PyStr(<<"1", "a", "m">>)

S_12_00 == PyStr(<<"1", "2", ":", "0", "0">>)

\* context dicts for detect: every combination of the three multiplier
\* sources, and the dicts with one unusual value
DetectContexts ==
    {None, PyDict(EmptyItems)}
    \cup {PyDict([time_of_day |-> t, session_count_today |-> PyInt(s),
                  user_age |-> a]) :
              t \in {None, S_3am}, s \in {0, 11, 21}, a \in {None, PyInt(15)}}
    \cup {PyDict([time_of_day |-> t]) : t \in {S_12am, S_2pm, S_3AM, S_1am, S_12_00}}
    \cup {PyDict([session_count_today |-> s]) : s \in {None, PyInt(10), PyInt(20)}}
    \cup {PyDict([user_age |-> PyInt(a)]) : a \in {0, 17, 18}}

\* utterances with four and five matching crisis patterns
ManyPatternMessages ==
    {<<"kill", "myself", "suicide", "hopeless">>,
     <<"kill", "myself", "suicide", "hopeless", "worthless">>}

\* utterances with question words, imperatives, future words, urgency
\* words and negations next to a pattern of one category, and the
\* utterance "I want to kill myself tonight"
FeatureMessages ==
    {<<"what", "where", "selfie">>, <<"show", "tell", "selfie">>,
     <<"what", "where", "show", "tell", "selfie">>,
     <<"what", "show", "selfie">>,
     <<"will", "shoot">>, <<"now", "shoot">>,
     <<"now", "suicide">>, <<"not", "suicide">>,
     <<"i", "want", "to", "kill", "myself", "tonight">>}

\* utterances with nine, ten and eleven matching patterns over the three
\* categories: the crisis patterns first, then "selfie", then "shoot"
KeywordMessages ==
    {<<"kill", "myself", "suicide", "hopeless", "worthless", "unbearable",
       "give", "up", "selfie", "shoot">>,
     <<"kill", "myself", "suicide", "hopeless", "worthless", "unbearable",
       "give", "up", "no", "hope", "selfie", "shoot">>,
     <<"kill", "myself", "suicide", "hopeless", "worthless", "unbearable",
       "give", "up", "no", "hope", "no", "future", "selfie", "shoot">>}

DetectCalls ==
    {[fn |-> "detect", message |-> m, context |-> c] :
         m \in {PyStr(s) : s \in Messages \cup ManyPatternMessages
                                  \cup FeatureMessages
                                  \cup KeywordMessages}
                   \cup {None},
         c \in DetectContexts}

\* base confidences k/100 and contexts for calculate_risk_score
Percent == 0..100

RiskContexts ==
    {PyDict([time_of_day |-> t, session_count_today |-> PyInt(s)]) :
         t \in {None, S_3AM}, s \in {0, 3}}
    \cup {PyDict(EmptyItems), PyDict([time_of_day |-> S_2pm])}

RiskCalls ==
    {[fn |-> "calculate_risk_score", base_detection_score |-> FLit(k, 100),
      context |-> c, previous_alerts_14d |-> p] :
         k \in Percent, c \in RiskContexts, p \in {0, 2}}

TierCalls == {[fn |-> "assign_tier", score |-> s] : s \in Percent}

\* the multiplier dicts that _calc_multipliers can build, as item lists in
\* every order of insertion, and the base scores k/100
MultiplierDicts ==
    LET late  == <<"late_night", F_1_3>>
        high  == <<"high_usage", F_1_2>>
        minor == <<"minor_user", F_1_3>>
    IN  {<<>>, <<late>>, <<high>>, <<minor>>,
         <<late, high>>, <<high, late>>, <<late, minor>>, <<minor, late>>,
         <<high, minor>>, <<minor, high>>,
         <<late, high, minor>>, <<late, minor, high>>, <<high, late, minor>>,
         <<high, minor, late>>, <<minor, late, high>>, <<minor, high, late>>}

\* rows of the generated test set (generate_test_set.py), lower-cased as
\* detect lower-cases them; none of their words outside Vocab occurs in a
\* pattern that the row completes
TestSetRows ==
    {[message |-> <<"i", "want", "to", "kill", "myself", "tonight">>,
      expected_category |-> "CRISIS"],
     [message |-> <<"show", "me", "your", "selfie">>,
      expected_category |-> "GROOMING"],
     [message |-> <<"they", "asked", "for", "this", "violence">>,
      expected_category |-> "VIOLENCE"],
     [message |-> <<"we", "need", "to", "shoot", "for", "that", "deadline">>,
      expected_category |-> "SAFE"],
     [message |-> <<"let", "me", "shoot", "you", "an", "email">>,
      expected_category |-> "SAFE"]}

ExpectedCategories == {"CRISIS", "GROOMING", "VIOLENCE", "SAFE"}

\* the test cases given to run_tests: the rows of the test set, and every
\* message over Vocab with every expected category
TestCases ==
    TestSetRows
        \cup {[message |-> m, expected_category |-> e] :
                  m \in Messages, e \in ExpectedCategories}

TestCalls ==
    {[fn |-> "run_tests", message |-> PyStr(c.message),
      expected |-> c.expected_category] : c \in TestCases}

MultiplierCalls ==
    {[fn |-> "apply_multipliers", base |-> FLit(k, 100), mult |-> m] :
         k \in Percent, m \in MultiplierDicts}

\* replies, utterances and histories for check_boundary_violations
MaxPhrases == 2

MaxHistory == 2

HistoryTurns ==
    {[user |-> PyStr(<<"hello">>), bot |-> PyStr(<<"hello">>)],
     [user |-> PyStr(<<"hello">>), bot |-> PyStr(<<"you don't need them">>)],
     [user |-> PyStr(<<"hello">>), bot |-> PyStr(<<"you're amazing">>)],
     [user |-> PyStr(<<"hello">>), bot |-> PyStr(<<>>)],
     [user |-> PyStr(<<"hello">>)]}

\* the exchange "they are watching me and tracking me" / "I agree, that
\* makes sense", and its two halves each with a neutral counterpart
DelusionExchanges ==
    {[fn |-> "check_boundary_violations", user_msg |-> PyStr(u),
      bot_msg |-> PyStr(b), history |-> h] :
         u \in {<<"they are watching", "tracking me">>, <<"hello">>},
         b \in {<<"I Agree", "makes sense">>, <<"hello">>},
         h \in {None, PyList(<<>>)}}

BoundaryCalls ==
    {[fn |-> "check_boundary_violations", user_msg |-> PyStr(u),
      bot_msg |-> PyStr(b), history |-> h] :
         u \in SeqsUpTo(UserPhrases, 1),
         b \in SeqsUpTo(BotPhrases, MaxPhrases),
         h \in {None} \cup {PyList(t) : t \in SeqsUpTo(HistoryTurns, MaxHistory)}}
    \cup DelusionExchanges

\* no company, no detection, no audit entry, no request answered yet
EmptyStore ==
    /\ companies = <<>>
    /\ detections = <<>>
    /\ audit_logs = <<>>
    /\ company_responses = <<>>
    /\ compliance_reviews = <<>>
    /\ workers = <<>>
    /\ now = 0
    /\ last_response = None

Init ==
    /\ detector = CrisisDetector_init
    /\ call \in DetectCalls \cup RiskCalls \cup TierCalls \cup MultiplierCalls
                \cup TestCalls
    /\ outcome = Pending
    /\ seen = <<>>
    /\ EmptyStore

\* detector.detect(message, context)
Detect ==
    /\ call.fn = "detect"
    /\ outcome = Pending
    /\ outcome' = detect(detector, call.message, call.context)
    /\ UNCHANGED <<detector, call, seen, store>>

\* risk_engine.calculate_risk_score(base_detection_score, context, alerts)
CalculateRiskScore ==
    /\ call.fn = "calculate_risk_score"
    /\ outcome = Pending
    /\ outcome' = calculate_risk_score(call.base_detection_score, call.context,
                                       call.previous_alerts_14d)
    /\ UNCHANGED <<detector, call, seen, store>>

\* the tier of one integer score by the classifier (as /detect maps it to a
\* number) and by the stratifier
AssignTier ==
    /\ call.fn = "assign_tier"
    /\ outcome = Pending
    /\ outcome' = Returned([classifier |-> tier_map(assign_tier(call.score)[1]),
                            stratifier |-> RSE_assign_tier(call.score).tier])
    /\ UNCHANGED <<detector, call, seen, store>>

\* detector._apply_multipliers(base, mult): the value returned, and the
\* value of its local score before the cap
ApplyMultipliers ==
    /\ call.fn = "apply_multipliers"
    /\ outcome = Pending
    /\ outcome' = Returned([final |-> apply_multipliers(call.base, call.mult),
                            score |-> MulAll(call.base, call.mult)])
    /\ UNCHANGED <<detector, call, seen, store>>

\* run_tests on one test case: detection without context, then the
\* categorisation of the result
RunTests ==
    /\ call.fn = "run_tests"
    /\ outcome = Pending
    /\ \E detection_result \in {detect(detector, call.message, None)} :
          outcome' =
              IF detection_result.raised THEN detection_result
              ELSE Returned(
                       [detected |->
                            categorize_detection(detection_result.value),
                        is_correct |->
                            categorize_detection(detection_result.value)
                                = call.expected,
                        score |-> detection_result.value.risk_score,
                        tier |-> detection_result.value.risk_tier])
    /\ UNCHANGED <<detector, call, seen, store>>

Next ==
    \/ Detect
    \/ CalculateRiskScore
    \/ AssignTier
    \/ ApplyMultipliers
    \/ RunTests

Spec == Init /\ [][Next]_vars

\* boundary_engine.check_boundary_violations(user_msg, bot_msg, history)
InitBoundary ==
    /\ detector = CrisisDetector_init
    /\ call \in BoundaryCalls
    /\ outcome = Pending
    /\ seen = <<>>
    /\ EmptyStore

CheckBoundaryViolations ==
    /\ call.fn = "check_boundary_violations"
    /\ outcome = Pending
    /\ outcome' = check_boundary_violations(call.user_msg, call.bot_msg,
                                            call.history)
    /\ UNCHANGED <<detector, call, seen, store>>

NextBoundary == CheckBoundaryViolations

SpecBoundary == InitBoundary /\ [][NextBoundary]_vars

\* ------------------------------------------------------------------------
\* Calls made one after another on the same detector and boundary engine
\* ------------------------------------------------------------------------
MaxCalls == 4

RepeatDetectCalls ==
    {[fn |-> "detect", message |-> PyStr(m), context |-> c] :
         m \in {<<"i">>, <<"suicide">>, <<"i", "kill", "myself">>},
         c \in {None, PyDict([time_of_day |-> S_3am,
                              session_count_today |-> PyInt(11),
                              user_age |-> PyInt(15)])}}

RepeatBoundaryCalls ==
    {[fn |-> "check_boundary_violations", user_msg |-> PyStr(<<"conspiracy">>),
      bot_msg |-> PyStr(b), history |-> h] :
         b \in {<<"i agree">>, <<"you're amazing", "trust me">>},
         h \in {None,
                PyList(<<[user |-> PyStr(<<"hello">>),
                          bot |-> PyStr(<<"you're amazing">>)]>>)}}

InitRepeat ==
    /\ detector = CrisisDetector_init
    /\ call = None
    /\ outcome = Pending
    /\ seen = <<>>
    /\ EmptyStore

\* detector.detect(message, context), after whatever calls were made before
RepeatDetect ==
    /\ Len(seen) < MaxCalls
    /\ \E c \in RepeatDetectCalls :
          /\ call' = c
          /\ outcome' = detect(detector, c.message, c.context)
    /\ seen' = Append(seen, [call |-> call', outcome |-> outcome'])
    /\ UNCHANGED <<detector, store>>

\* boundary_engine.check_boundary_violations(user_msg, bot_msg, history),
\* after whatever calls were made before
RepeatCheckBoundaryViolations ==
    /\ Len(seen) < MaxCalls
    /\ \E c \in RepeatBoundaryCalls :
          /\ call' = c
          /\ outcome' = check_boundary_violations(c.user_msg, c.bot_msg,
                                                  c.history)
    /\ seen' = Append(seen, [call |-> call', outcome |-> outcome'])
    /\ UNCHANGED <<detector, store>>

NextRepeat == RepeatDetect \/ RepeatCheckBoundaryViolations

SpecRepeat == InitRepeat /\ [][NextRepeat]_vars

\* ------------------------------------------------------------------------
\* The service: requests to POST /detect and the passing of time
\* ------------------------------------------------------------------------
MaxDetections == 3

MaxClock == 400

TickHours == {400}

ApiUsers == {"u1", "u2"}

ContextData(time_of_day, session_count_today) ==
    [time_of_day |-> time_of_day, session_count_today |-> session_count_today,
     days_active |-> PyInt(0)]

\* what a client sends apart from the user: a quiet exchange; a crisis
\* utterance without context; a crisis utterance late at night in a heavy
\* session, with a client-supplied timestamp, a reply with dependency
\* language, one turn of history and the API key of the demo company; a
\* context whose session count is null
ApiBodies ==
    {[timestamp |-> None, context |-> None, x_api_key |-> None,
      message |-> [user |-> PyStr(<<"i">>), bot |-> None,
                   conversation_history |-> PyList(<<>>)]],
     [timestamp |-> None, context |-> None, x_api_key |-> None,
      message |-> [user |-> PyStr(<<"suicide">>), bot |-> None,
                   conversation_history |-> None]],
     [timestamp |-> PyInt(300), context |-> ContextData(S_3am, PyInt(11)),
      x_api_key |-> PyStr("demo-api-key"),
      message |-> [user |-> PyStr(<<"i", "suicide">>),
                   bot |-> PyStr(<<"trust me">>),
                   conversation_history |->
                       PyList(<<[user |-> PyStr(<<"hello">>)]>>)]],
     [timestamp |-> None, context |-> ContextData(None, None),
      x_api_key |-> None,
      message |-> [user |-> PyStr(<<"i">>), bot |-> None,
                   conversation_history |-> PyList(<<>>)]]}

\* the request (body) and the X-API-Key header of each call
ApiRequests ==
    {[x_api_key |-> b.x_api_key,
      request |-> [session_id |-> "s1", user_id_hash |-> u,
                   timestamp |-> b.timestamp, message |-> b.message,
                   context |-> b.context]] :
         u \in ApiUsers, b \in ApiBodies}

\* the store query of the temporal tracker that fails during a request
Faults == {"none", "previous_alerts", "temporal"}

InitApi ==
    /\ detector = CrisisDetector_init
    /\ call = None
    /\ outcome = Pending
    /\ seen = <<>>
    /\ EmptyStore

\* one request to POST /detect, handled from arrival to response
DetectRequest ==
    /\ Len(detections) < MaxDetections
    /\ \E c \in ApiRequests, fault \in Faults :
         \E alerts_72h \in query_alerts_72h(
                               detections, c.request.user_id_hash, now) :
            \E done \in {detect_crisis(detector, c.request, c.x_api_key,
                                       companies, detections, audit_logs,
                                       now, fault, alerts_72h)} :
                /\ companies' = done.companies
                /\ detections' = done.detections
                /\ audit_logs' = done.audit_logs
                /\ last_response' = [status |-> done.status,
                                     body |-> done.body,
                                     locals |-> done.locals,
                                     fault |-> fault]
    /\ UNCHANGED <<detector, call, outcome, seen, company_responses,
                   compliance_reviews, workers, now>>

\* time passes between requests
Tick ==
    /\ \E d \in TickHours :
          /\ now + d <= MaxClock
          /\ now' = now + d
    /\ UNCHANGED <<detector, call, outcome, seen, companies, detections,
                   audit_logs, company_responses, compliance_reviews,
                   workers, last_response>>

NextApi == DetectRequest \/ Tick

SpecApi == InitApi /\ [][NextApi]_vars

\* ------------------------------------------------------------------------
\* Parallel workers: each handles one request to POST /detect at a time, on
\* the shared tables; a step is a stretch of the handler between two
\* accesses to the tables.  Requests of one user are handled one after the
\* other, requests of different users in any interleaving.
\* ------------------------------------------------------------------------
NumWorkers == 2

Workers == 1..NumWorkers

Idle == [pc |-> "idle"]

Busy(w) == workers[w].pc # "idle"

WorkerRequests == ApiRequests

\* the response of a request and the locals it was computed from
Respond(status, body, locals) ==
    [status |-> status, body |-> body, locals |-> locals, fault |-> "none"]

InitWorkers ==
    /\ detector = CrisisDetector_init
    /\ call = None
    /\ outcome = Pending
    /\ seen = <<>>
    /\ companies = <<>>
    /\ detections = <<>>
    /\ audit_logs = <<>>
    /\ company_responses = <<>>
    /\ compliance_reviews = <<>>
    /\ workers = [w \in Workers |-> Idle]
    /\ now = 0
    /\ last_response = None

\* a worker takes a request
Receive(w) ==
    /\ ~Busy(w)
    /\ Len(detections) + Cardinality({v \in Workers : Busy(v)})
           < MaxDetections
    /\ \E c \in WorkerRequests :
          /\ \A v \in Workers :
                 Busy(v) =>
                     workers[v].c.request.user_id_hash
                         # c.request.user_id_hash
          /\ workers' = [workers EXCEPT ![w] = [pc |-> "lookup", c |-> c]]
    /\ UNCHANGED <<detector, call, outcome, seen, companies, detections,
                   audit_logs, company_responses, compliance_reviews, now,
                   last_response>>

\* detect_crisis, lines 33 to 38: the two queries for the company
LookupCompany(w) ==
    /\ workers[w].pc = "lookup"
    /\ \E company \in {lookup_company(companies, workers[w].c.x_api_key)} :
          workers' = [workers EXCEPT ![w] =
                         [pc |-> IF company = None THEN "create"
                                 ELSE "count",
                          c |-> workers[w].c, company |-> company]]
    /\ UNCHANGED <<detector, call, outcome, seen, companies, detections,
                   audit_logs, company_responses, compliance_reviews, now,
                   last_response>>

\* detect_crisis, lines 39 to 49: the demo company is inserted and
\* committed; companies.name is unique (models/database.py line 28), so
\* the commit raises IntegrityError if a row of that name is there by now
CreateDemoCompany(w) ==
    /\ workers[w].pc = "create"
    /\ IF \E i \in 1..Len(companies) : companies[i].name = "Demo Company"
       THEN /\ last_response' =
                   Respond(500, [error |-> "IntegrityError"], None)
            /\ workers' = [workers EXCEPT ![w] = Idle]
            /\ UNCHANGED companies
       ELSE /\ companies' = Append(companies, demo_company(companies, now))
            /\ workers' = [workers EXCEPT ![w] =
                              [pc |-> "count", c |-> workers[w].c,
                               company |-> demo_company(companies, now)]]
            /\ UNCHANGED last_response
    /\ UNCHANGED <<detector, call, outcome, seen, detections, audit_logs,
                   company_responses, compliance_reviews, now>>

\* detect_crisis, lines 51 to 53: the 14-day count
CountPreviousAlerts(w) ==
    /\ workers[w].pc = "count"
    /\ workers' = [workers EXCEPT ![w] =
                      [pc |-> "assess", c |-> workers[w].c,
                       company |-> workers[w].company,
                       previous_alerts |->
                           get_previous_alerts_count(
                               detections,
                               workers[w].c.request.user_id_hash, now, 14)]]
    /\ UNCHANGED <<detector, call, outcome, seen, companies, detections,
                   audit_logs, company_responses, compliance_reviews, now,
                   last_response>>

\* detect_crisis, lines 55 to 202: the assessments, with the queries of the
\* temporal tracker, and the rows to store
Assess(w) ==
    /\ workers[w].pc = "assess"
    /\ \E alerts_72h \in query_alerts_72h(
                             detections, workers[w].c.request.user_id_hash,
                             now) :
         \E done \in {detect_crisis_assessed(
                          workers[w].c.request, workers[w].company,
                          companies, detections, audit_logs, now, "none",
                          alerts_72h, context_dict_of(workers[w].c.request),
                          workers[w].previous_alerts,
                          detect(detector, workers[w].c.request.message.user,
                                 context_dict_of(workers[w].c.request)))} :
            IF done.status # 200
            THEN /\ last_response' = Respond(done.status, done.body, None)
                 /\ workers' = [workers EXCEPT ![w] = Idle]
            ELSE /\ workers' = [workers EXCEPT ![w] =
                                   [pc |-> "commit", c |-> workers[w].c,
                                    body |-> done.body,
                                    locals |-> done.locals,
                                    detection |->
                                        done.detections[Len(done.detections)],
                                    audit_log |->
                                        done.audit_logs[Len(done.audit_logs)]]]
                 /\ UNCHANGED last_response
    /\ UNCHANGED <<detector, call, outcome, seen, companies, detections,
                   audit_logs, company_responses, compliance_reviews, now>>

\* detect_crisis, lines 204 to 254: the commit of the detection with its
\* audit entry, and the response; the identifiers are fresh
Commit(w) ==
    /\ workers[w].pc = "commit"
    /\ detections' =
           Append(detections,
                  [workers[w].detection EXCEPT
                      !.id = Len(detections) + 1,
                      !.assessment_id = Len(detections) + 1])
    /\ audit_logs' =
           Append(audit_logs,
                  [workers[w].audit_log EXCEPT
                      !.id = Len(audit_logs) + 1,
                      !.entity_id = Len(detections) + 1])
    /\ last_response' =
           Respond(200,
                   [workers[w].body EXCEPT
                       !.assessment_id = Len(detections) + 1],
                   workers[w].locals)
    /\ workers' = [workers EXCEPT ![w] = Idle]
    /\ UNCHANGED <<detector, call, outcome, seen, companies,
                   company_responses, compliance_reviews, now>>

NextWorkers ==
    \E w \in Workers :
        \/ Receive(w)
        \/ LookupCompany(w)
        \/ CreateDemoCompany(w)
        \/ CountPreviousAlerts(w)
        \/ Assess(w)
        \/ Commit(w)

SpecWorkers == InitWorkers /\ [][NextWorkers]_vars

\* ------------------------------------------------------------------------
\* Two calls of detect in the same context: an utterance, then the utterance
\* with one more word somewhere in it
\* ------------------------------------------------------------------------
InsertAt(m, k, w) == SubSeq(m, 1, k) \o <<w>> \o SubSeq(m, k + 1, Len(m))

PairContexts ==
    {None,
     PyDict([time_of_day |-> S_3am, session_count_today |-> PyInt(11),
             user_age |-> PyInt(15)]),
     PyDict([session_count_today |-> PyInt(21)]),
     PyDict([session_count_today |-> None])}

PairCalls ==
    UNION {{[fn |-> "detect", first |-> PyStr(m),
             second |-> PyStr(InsertAt(m, k, w)), context |-> c] :
                k \in 0..Len(m), w \in Vocab, c \in PairContexts} :
              m \in SeqsUpTo(Vocab, MaxWords - 1)}

InitPair ==
    /\ detector = CrisisDetector_init
    /\ call \in PairCalls
    /\ outcome = Pending
    /\ seen = <<>>
    /\ EmptyStore

\* detector.detect(first, context)
DetectFirst ==
    /\ call.fn = "detect"
    /\ seen = <<>>
    /\ seen' = <<detect(detector, call.first, call.context)>>
    /\ UNCHANGED <<detector, call, outcome, store>>

\* detector.detect(second, context)
DetectSecond ==
    /\ call.fn = "detect"
    /\ Len(seen) = 1
    /\ outcome = Pending
    /\ outcome' = detect(detector, call.second, call.context)
    /\ seen' = Append(seen, outcome')
    /\ UNCHANGED <<detector, call, store>>

NextPair == DetectFirst \/ DetectSecond

SpecPair == InitPair /\ [][NextPair]_vars

\* ------------------------------------------------------------------------
\* The temporal tracker on a store of any content: rows of the user asked
\* about, older than 14 days, older than 72 hours or recent, of tier 1, 2 or
\* 3, and recent tier-1 rows of another user.  Rows carry the columns the
\* queries read.
\* ------------------------------------------------------------------------
MaxRows == 4

TemporalNow == 500

StoredRows ==
    {[user_id_hash |-> "u1", timestamp |-> t, risk_tier |-> r[1],
      risk_score |-> r[2]] :
         t \in {TemporalNow - 400, TemporalNow - 100, TemporalNow - 10},
         r \in {<<1, 90>>, <<2, 70>>, <<3, 50>>}}
    \cup {[user_id_hash |-> "u2", timestamp |-> TemporalNow - 10,
           risk_tier |-> 1, risk_score |-> 90]}

InitTemporal ==
    /\ detector = CrisisDetector_init
    /\ call = [fn |-> "check_temporal_patterns", user_id_hash |-> "u1"]
    /\ outcome = Pending
    /\ seen = <<>>
    /\ companies = <<>>
    /\ detections \in SeqsUpTo(StoredRows, MaxRows)
    /\ audit_logs = <<>>
    /\ company_responses = <<>>
    /\ compliance_reviews = <<>>
    /\ workers = <<>>
    /\ now = TemporalNow
    /\ last_response = None

\* temporal_tracker.check_temporal_patterns(db, user_id_hash)
CheckTemporalPatterns ==
    /\ call.fn = "check_temporal_patterns"
    /\ outcome = Pending
    /\ \E alerts_72h \in query_alerts_72h(detections, call.user_id_hash, now) :
          outcome' = Returned(check_temporal_patterns(
                                  detections, call.user_id_hash, now,
                                  alerts_72h))
    /\ UNCHANGED <<detector, call, seen, store>>

NextTemporal == CheckTemporalPatterns

SpecTemporal == InitTemporal /\ [][NextTemporal]_vars

\* ------------------------------------------------------------------------
\* check_temporal_patterns query by query, while other requests commit
\* their detections: utcnow() is read once, then the 72-hour query and the
\* 14-day count each read the table as it is when they run.  The frame of
\* the call is kept in workers[1].
\* ------------------------------------------------------------------------
InitTracker ==
    /\ detector = CrisisDetector_init
    /\ call = [fn |-> "check_temporal_patterns", user_id_hash |-> "u1"]
    /\ outcome = Pending
    /\ seen = <<>>
    /\ companies = <<>>
    /\ detections = <<>>
    /\ audit_logs = <<>>
    /\ company_responses = <<>>
    /\ compliance_reviews = <<>>
    /\ workers = <<[pc |-> "query_72h"]>>
    /\ now = TemporalNow
    /\ last_response = None

\* another request commits its Detection row
InsertDetection ==
    /\ Len(detections) < MaxRows
    /\ \E row \in StoredRows : detections' = Append(detections, row)
    /\ UNCHANGED <<detector, call, outcome, seen, companies, audit_logs,
                   company_responses, compliance_reviews, workers, now,
                   last_response>>

\* check_temporal_patterns, lines 16 to 23
QueryAlerts72h ==
    /\ workers[1].pc = "query_72h"
    /\ \E alerts_72h \in query_alerts_72h(detections, call.user_id_hash, now) :
          workers' = <<[pc |-> "count_14d", alerts_72h |-> alerts_72h,
                        rows_read |-> Len(detections)]>>
    /\ UNCHANGED <<detector, call, outcome, seen, companies, detections,
                   audit_logs, company_responses, compliance_reviews, now,
                   last_response>>

\* check_temporal_patterns, lines 25 to 51
CountAlerts14d ==
    /\ workers[1].pc = "count_14d"
    /\ outcome' = Returned(check_temporal_patterns(
                               detections, call.user_id_hash, now,
                               workers[1].alerts_72h))
    /\ workers' = <<[pc |-> "done", alerts_72h |-> workers[1].alerts_72h,
                     rows_read |-> workers[1].rows_read,
                     rows_counted |-> Len(detections)]>>
    /\ UNCHANGED <<detector, call, seen, companies, detections, audit_logs,
                   company_responses, compliance_reviews, now, last_response>>

NextTracker == InsertDetection \/ QueryAlerts72h \/ CountAlerts14d

SpecTracker == InitTracker /\ [][NextTracker]_vars

\* ------------------------------------------------------------------------
\* Company registration, company responses and compliance reviews
\* (app/api/company.py, app/api/review.py, app/api/dashboard.py) on the
\* tables, each request handled from arrival to response.  Assessment ids
\* and row ids are the positions of the rows, payload fields that no
\* handler reads back are left out of the stored rows.
\* ------------------------------------------------------------------------
Settings_ADMIN_API_KEY == "admin-key"

\* AuditLog(...): the row as the commit stores it
AuditLog(db_audit_logs, now_, event_type, entity_type, entity_id, actor, details) ==
    [id          |-> Len(db_audit_logs) + 1,
     timestamp   |-> now_,
     event_type  |-> event_type,
     entity_type |-> entity_type,
     entity_id   |-> entity_id,
     actor       |-> actor,
     details     |-> details]

\* raise HTTPException(status_code, detail): the tables as they are
HTTPException(status_code, detail, db_companies, db_company_responses, db_compliance_reviews, db_audit_logs) ==
    [status             |-> status_code,
     body               |-> [detail |-> detail],
     companies          |-> db_companies,
     company_responses  |-> db_company_responses,
     compliance_reviews |-> db_compliance_reviews,
     audit_logs         |-> db_audit_logs]

verify_admin_key(api_key) ==
    IF api_key = None \/ api_key.s = "" THEN FALSE
    ELSE api_key.s = Settings_ADMIN_API_KEY

\* the first active company with the hash of the key, else None
verify_company_api_key(db_companies, api_key) ==
    IF api_key = None \/ api_key.s = "" THEN None
    ELSE LET found == get_company_from_api_key(db_companies, api_key.s)
         IN  IF found = {} THEN None ELSE db_companies[IMin(found)]

\* create_company; api_key is the token that secrets.token_urlsafe drew.
\* The audit entry is built before the flush that gives the row its id, so
\* its entity_id is str(None).
create_company(company_data, x_admin_key, api_key, db_companies, db_company_responses, db_compliance_reviews, db_audit_logs, now_) ==
    IF ~verify_admin_key(x_admin_key) THEN
        HTTPException(
            401, "Invalid or missing admin key. Provide X-Admin-Key header.",
            db_companies, db_company_responses, db_compliance_reviews,
            Append(db_audit_logs,
                   AuditLog(db_audit_logs, now_,
                            "unauthorized_company_creation_attempt",
                            "company", "new", "unknown",
                            [company_name |-> company_data.name,
                             reason |-> "Invalid or missing admin key"])))
    ELSE IF \E i \in 1..Len(db_companies) :
                db_companies[i].name = company_data.name THEN
        HTTPException(400, "Company name already exists", db_companies,
                      db_company_responses, db_compliance_reviews,
                      db_audit_logs)
    ELSE
        LET company == [id            |-> Len(db_companies) + 1,
                        name          |-> company_data.name,
                        api_key_hash  |-> sha256(api_key),
                        contact_email |-> company_data.contact_email,
                        created_at    |-> now_,
                        is_active     |-> TRUE]
        IN  [status             |-> 200,
             body               |-> [id |-> company.id,
                                     name |-> company.name,
                                     api_key |-> api_key,
                                     contact_email |-> company.contact_email,
                                     created_at |-> company.created_at],
             companies          |-> Append(db_companies, company),
             company_responses  |-> db_company_responses,
             compliance_reviews |-> db_compliance_reviews,
             audit_logs         |->
                 Append(db_audit_logs,
                        AuditLog(db_audit_logs, now_, "company_created",
                                 "company", "None", "system",
                                 [company_name |-> company_data.name]))]

\* Python's  a or b  on Optional[int]
IntOr(a, b) == IF a # None /\ a.v # 0 THEN a ELSE b

\* a company response that writes the row without the audit entry
submit_company_response_unlogged(response_data, x_api_key, db_companies, db_detections, db_company_responses, db_compliance_reviews, db_audit_logs, now_) ==
    [status             |-> 200,
     body               |-> [success |-> TRUE,
                             message |-> "Response recorded successfully",
                             response_id |-> Len(db_company_responses) + 1,
                             received_at |-> now_],
     companies          |-> db_companies,
     company_responses  |->
         Append(db_company_responses,
                [id |-> Len(db_company_responses) + 1,
                 assessment_id |-> response_data.assessment_id]),
     compliance_reviews |-> db_compliance_reviews,
     audit_logs         |-> db_audit_logs]

\* submit_company_response (POST /report-response); times are in hours
submit_company_response(response_data, x_api_key, db_companies, db_detections, db_company_responses, db_compliance_reviews, db_audit_logs, now_) ==
    LET company == verify_company_api_key(db_companies, x_api_key)
        found == {i \in 1..Len(db_detections) :
                     db_detections[i].assessment_id
                         = response_data.assessment_id}
        detection == db_detections[IMin(found)]
        existing_response ==
            {i \in 1..Len(db_company_responses) :
                db_company_responses[i].assessment_id
                    = response_data.assessment_id}
        response_time ==
            IF response_data.timestamp_company_responded # None
               /\ response_data.timestamp_detection # None
            THEN PyInt((response_data.timestamp_company_responded.v
                           - response_data.timestamp_detection.v) * 60)
            ELSE None
        company_response ==
            [id                  |-> Len(db_company_responses) + 1,
             detection_id        |-> detection.id,
             company_id          |-> company.id,
             assessment_id       |-> response_data.assessment_id,
             timestamp_detection |-> response_data.timestamp_detection,
             timestamp_company_received |-> PyInt(now_),
             timestamp_company_responded |->
                 IF response_data.timestamp_company_responded # None
                 THEN response_data.timestamp_company_responded
                 ELSE PyInt(now_),
             response_time_minutes |->
                 IntOr(response_time, response_data.response_time_minutes),
             risk_score          |->
                 IntOr(response_data.risk_score, PyInt(detection.risk_score)),
             risk_tier           |->
                 IntOr(response_data.risk_tier, PyInt(detection.risk_tier)),
             crisis_resources_displayed |->
                 response_data.crisis_resources_displayed,
             outcome_category    |-> response_data.outcome_category]
    IN  IF company = None THEN
            HTTPException(
                401, "Invalid or missing API key. Provide X-API-Key header.",
                db_companies, db_company_responses, db_compliance_reviews,
                Append(db_audit_logs,
                       AuditLog(db_audit_logs, now_,
                                "unauthorized_response_attempt",
                                "company_response",
                                response_data.assessment_id, "unknown",
                                [reason |-> "Invalid or missing API key"])))
        ELSE IF found = {} THEN
            HTTPException(404, "Assessment not found", db_companies,
                          db_company_responses, db_compliance_reviews,
                          db_audit_logs)
        ELSE IF detection.company_id # company.id THEN
            HTTPException(
                403,
                "You do not have permission to respond to this assessment",
                db_companies, db_company_responses, db_compliance_reviews,
                Append(db_audit_logs,
                       AuditLog(db_audit_logs, now_,
                                "unauthorized_response_attempt",
                                "company_response",
                                response_data.assessment_id, company.name,
                                [reason |->
                                     "Company does not own this detection"])))
        ELSE IF existing_response # {} THEN
            HTTPException(400,
                          "Response already submitted for this assessment",
                          db_companies, db_company_responses,
                          db_compliance_reviews, db_audit_logs)
        ELSE
            [status             |-> 200,
             body               |-> [success |-> TRUE,
                                     message |->
                                         "Response recorded successfully",
                                     response_id |-> company_response.id,
                                     received_at |-> now_],
             companies          |-> db_companies,
             company_responses  |->
                 Append(db_company_responses, company_response),
             compliance_reviews |-> db_compliance_reviews,
             audit_logs         |->
                 Append(db_audit_logs,
                        AuditLog(db_audit_logs, now_,
                                 "company_response_submitted",
                                 "company_response",
                                 response_data.assessment_id, company.name,
                                 [response_time_minutes |->
                                      IntOr(response_time,
                                            response_data
                                                .response_time_minutes),
                                  crisis_resources_displayed |->
                                      response_data
                                          .crisis_resources_displayed,
                                  outcome_category |->
                                      response_data.outcome_category]))]

\* status_map.get(assessment_status, assessment_status)
\* the assessment status stored as it was sent
internal_status_as_sent(assessment_status) == assessment_status

internal_status_of(assessment_status) ==
    IF assessment_status = "compliant" THEN "approved"
    ELSE IF assessment_status = "needs_followup" THEN "revision_requested"
    ELSE IF assessment_status = "non_compliant" THEN "escalated"
    ELSE assessment_status

\* x == "yes" if x else None   and   x in [...] if x else None
YesOrNone(x, yes) ==
    IF x = None \/ x.s = "" THEN None
    ELSE [type |-> "bool", v |-> x.s \in yes]

\* submit_review (POST /submit of the review API).  fault is the commit that
\* fails during the request, if any: the except clause rolls the open
\* transaction back and answers 500, what was committed before stays.
submit_review(review, fault, db_companies, db_detections, db_company_responses, db_compliance_reviews, db_audit_logs, now_) ==
    LET found == {i \in 1..Len(db_detections) :
                     db_detections[i].assessment_id = review.assessment_id}
        detection == db_detections[IMin(found)]
        existing_review ==
            {i \in 1..Len(db_compliance_reviews) :
                db_compliance_reviews[i].detection_id = detection.id}
        internal_status == internal_status_of(review.assessment_status)
        response_appropriate == YesOrNone(review.protocol_followed, {"yes"})
        timing_acceptable ==
            YesOrNone(review.response_time_acceptable, {"yes"})
        actions_appropriate ==
            YesOrNone(review.actions_appropriate, {"yes", "could_improve"})
        reviews1 ==
            IF existing_review # {} THEN
                [db_compliance_reviews EXCEPT
                    ![IMin(existing_review)] =
                        [@ EXCEPT !.status = internal_status,
                                  !.response_appropriate =
                                      response_appropriate,
                                  !.timing_acceptable = timing_acceptable,
                                  !.protocol_followed = actions_appropriate,
                                  !.reviewer_notes = review.reviewer_notes,
                                  !.reviewed_at = now_]]
            ELSE Append(db_compliance_reviews,
                        [id                   |->
                             Len(db_compliance_reviews) + 1,
                         detection_id         |-> detection.id,
                         reviewer_name        |-> review.reviewer_name,
                         status               |-> internal_status,
                         response_appropriate |-> response_appropriate,
                         timing_acceptable    |-> timing_acceptable,
                         protocol_followed    |-> actions_appropriate,
                         reviewer_notes       |-> review.reviewer_notes,
                         reviewed_at          |-> now_,
                         created_at           |-> now_])
        message == IF existing_review # {} THEN "Review updated successfully"
                   ELSE "Review submitted successfully"
        audit_log ==
            AuditLog(db_audit_logs, now_, "compliance_review_submitted",
                     "ComplianceReview", detection.id, review.reviewer_name,
                     [status |-> internal_status,
                      assessment_id |-> review.assessment_id])
    IN  IF found = {} THEN
            HTTPException(404, <<"Detection ", review.assessment_id,
                                 " not found">>,
                          db_companies, db_company_responses,
                          db_compliance_reviews, db_audit_logs)
        ELSE IF fault = "review_commit" THEN
            HTTPException(500, "Review submission error: OperationalError",
                          db_companies, db_company_responses,
                          db_compliance_reviews, db_audit_logs)
        ELSE IF fault = "audit_commit" THEN
            HTTPException(500, "Review submission error: OperationalError",
                          db_companies, db_company_responses, reviews1,
                          db_audit_logs)
        ELSE
            [status             |-> 200,
             body               |-> [success |-> TRUE,
                                     message |-> message,
                                     assessment_id |-> review.assessment_id,
                                     assessment_status |->
                                         review.assessment_status,
                                     reviewed_at |-> now_],
             companies          |-> db_companies,
             company_responses  |-> db_company_responses,
             compliance_reviews |-> reviews1,
             audit_logs         |-> Append(db_audit_logs, audit_log)]

\* submit_review of the dashboard (POST /dashboard/review): its first
\* statement reads review_data.detection_id, which ComplianceReviewRequest
\* does not have, so every request ends in an AttributeError before any
\* table is touched
dashboard_submit_review(review_data, db_companies, db_detections, db_company_responses, db_compliance_reviews, db_audit_logs, now_) ==
    [status             |-> 500,
     body               |-> [error |-> "AttributeError"],
     companies          |-> db_companies,
     company_responses  |-> db_company_responses,
     compliance_reviews |-> db_compliance_reviews,
     audit_logs         |-> db_audit_logs]

\* at most MaxAuditLogs audit entries are written
MaxAuditLogs == 4

\* the requests to POST /detect: a quiet exchange of one user without key
\* and a crisis utterance of the other with the key of the demo company
AuditDetectRequests ==
    {c \in ApiRequests :
        \/ /\ c.request.user_id_hash = "u1"
           /\ c.x_api_key = None
           /\ c.request.context = None
           /\ c.request.message.user = PyStr(<<"i">>)
        \/ /\ c.request.user_id_hash = "u2"
           /\ c.x_api_key # None}

CompanyCreates ==
    {[x_admin_key |-> k,
      api_key |-> "acme-key",
      company_data |-> [name |-> "Acme",
                        contact_email |-> "ops@acme.example"]] :
         k \in {None, PyStr(Settings_ADMIN_API_KEY)}}

\* at most MaxAssessments detections are stored; the requests name these
\* assessments, the later ones while they do not exist yet
MaxAssessments == 2

AssessmentIds == 1..MaxAssessments

CompanyResponseRequests ==
    {[x_api_key |-> kt[1],
      response_data |->
          [assessment_id |-> a,
           timestamp_detection |-> PyInt(0),
           timestamp_company_responded |-> kt[2],
           response_time_minutes |-> PyInt(30),
           risk_score |-> None,
           risk_tier |-> None,
           crisis_resources_displayed |-> TRUE,
           outcome_category |-> PyStr("resolved")]] :
         a \in AssessmentIds,
         kt \in {<<None, None>>, <<PyStr("demo-api-key"), PyInt(1)>>,
                 <<PyStr("acme-key"), PyInt(1)>>}}

ReviewRequests ==
    {[assessment_id |-> a,
      reviewer_name |-> "Tammy",
      assessment_status |-> s[1],
      protocol_followed |-> s[2],
      response_time_acceptable |-> s[2],
      actions_appropriate |-> s[3],
      reviewer_notes |-> None] :
         a \in AssessmentIds,
         s \in {<<"compliant", PyStr("yes"), PyStr("could_improve")>>,
                <<"needs_followup", PyStr("no"), None>>,
                <<"non_compliant", None, PyStr("no")>>,
                <<"pending", None, None>>}}

ReviewFaults == {"none", "review_commit", "audit_commit"}

\* what a handler answered, and to which request
Answer(handler, request, done) ==
    [handler |-> handler, request |-> request,
     status |-> done.status, body |-> done.body]

InitAudit ==
    /\ detector = CrisisDetector_init
    /\ call = None
    /\ outcome = Pending
    /\ seen = <<>>
    /\ EmptyStore

AuditDetect ==
    /\ Len(detections) < MaxAssessments
    /\ Len(audit_logs) < MaxAuditLogs
    /\ \E c \in AuditDetectRequests :
         \E alerts_72h \in query_alerts_72h(
                               detections, c.request.user_id_hash, now) :
            \E done \in {detect_crisis(detector, c.request, c.x_api_key,
                                       companies, detections, audit_logs,
                                       now, "none", alerts_72h)} :
                /\ companies' = done.companies
                /\ detections' = done.detections
                /\ audit_logs' = done.audit_logs
                /\ last_response' = Answer("detect_crisis", c, done)
    /\ UNCHANGED <<detector, call, outcome, seen, company_responses,
                   compliance_reviews, workers, now>>

CreateCompany ==
    /\ Len(audit_logs) < MaxAuditLogs
    /\ \E c \in CompanyCreates :
         \E done \in {create_company(c.company_data, c.x_admin_key, c.api_key,
                                     companies, company_responses,
                                     compliance_reviews, audit_logs, now)} :
            /\ companies' = done.companies
            /\ audit_logs' = done.audit_logs
            /\ last_response' = Answer("create_company", c, done)
    /\ UNCHANGED <<detector, call, outcome, seen, detections,
                   company_responses, compliance_reviews, workers, now>>

SubmitCompanyResponse ==
    /\ Len(audit_logs) < MaxAuditLogs
    /\ \E c \in CompanyResponseRequests :
         \E done \in {submit_company_response(
                          c.response_data, c.x_api_key, companies, detections,
                          company_responses, compliance_reviews, audit_logs,
                          now)} :
            /\ company_responses' = done.company_responses
            /\ audit_logs' = done.audit_logs
            /\ last_response' = Answer("submit_company_response", c, done)
    /\ UNCHANGED <<detector, call, outcome, seen, companies, detections,
                   compliance_reviews, workers, now>>

SubmitReview ==
    /\ Len(audit_logs) < MaxAuditLogs
    /\ \E review \in ReviewRequests, fault \in ReviewFaults :
         \E done \in {submit_review(review, fault, companies, detections,
                                    company_responses, compliance_reviews,
                                    audit_logs, now)} :
            /\ compliance_reviews' = done.compliance_reviews
            /\ audit_logs' = done.audit_logs
            /\ last_response' = Answer("submit_review", review, done)
    /\ UNCHANGED <<detector, call, outcome, seen, companies, detections,
                   company_responses, workers, now>>

DashboardSubmitReview ==
    /\ \E review_data \in {r \in ReviewRequests :
                                r.assessment_status = "compliant"} :
         \E done \in {dashboard_submit_review(
                          review_data, companies, detections,
                          company_responses, compliance_reviews, audit_logs,
                          now)} :
            /\ compliance_reviews' = done.compliance_reviews
            /\ audit_logs' = done.audit_logs
            /\ last_response' = Answer("dashboard_submit_review",
                                       review_data, done)
    /\ UNCHANGED <<detector, call, outcome, seen, companies, detections,
                   company_responses, workers, now>>

NextAudit ==
    \/ AuditDetect
    \/ CreateCompany
    \/ SubmitCompanyResponse
    \/ SubmitReview
    \/ DashboardSubmitReview

SpecAudit == InitAudit /\ [][NextAudit]_vars

\* ------------------------------------------------------------------------
\* check_boundary_violations on long histories: up to MaxTurns prior turns,
\* at most two of them with an isolation or a sycophantic reply, anywhere
\* in the history, the others neutral
\* ------------------------------------------------------------------------
MaxTurns == 12

TurnWith(reply) == [user |-> PyStr(<<"hello">>), bot |-> PyStr(<<reply>>)]

CumulativeReplies == {"you don't need them", "you're amazing"}

LongHistories ==
    UNION {{[k \in 1..n |->
                IF k = a THEN TurnWith(x)
                ELSE IF k = b THEN TurnWith(y)
                ELSE TurnWith("hello")] :
               a \in 0..n, b \in 0..n,
               x \in CumulativeReplies, y \in CumulativeReplies} :
           n \in 0..MaxTurns}

WindowCalls ==
    {[fn |-> "check_boundary_violations", user_msg |-> PyStr(<<"hello">>),
      bot_msg |-> PyStr(<<b>>), history |-> PyList(h)] :
         b \in CumulativeReplies \cup {"hello"}, h \in LongHistories}

InitWindow ==
    /\ detector = CrisisDetector_init
    /\ call \in WindowCalls
    /\ outcome = Pending
    /\ seen = <<>>
    /\ EmptyStore

CheckWindow ==
    /\ call.fn = "check_boundary_violations"
    /\ outcome = Pending
    /\ outcome' = check_boundary_violations(call.user_msg, call.bot_msg,
                                            call.history)
    /\ UNCHANGED <<detector, call, seen, store>>

NextWindow == CheckWindow

SpecWindow == InitWindow /\ [][NextWindow]_vars

\* ------------------------------------------------------------------------
\* Parallel workers on POST /report-response: a worker runs the handler up
\* to the query for an existing response, then builds the rows and commits
\* them; between the two steps other workers run.  Detections and
\* companies are stored by whole requests as before.
\* company_responses.detection_id is unique (models/database.py line 80):
\* the commit of a second row for a detection raises IntegrityError, which
\* the handler does not catch.
\* ------------------------------------------------------------------------
InitResponders ==
    /\ detector = CrisisDetector_init
    /\ call = None
    /\ outcome = Pending
    /\ seen = <<>>
    /\ companies = <<>>
    /\ detections = <<>>
    /\ audit_logs = <<>>
    /\ company_responses = <<>>
    /\ compliance_reviews = <<>>
    /\ workers = [w \in Workers |-> Idle]
    /\ now = 0
    /\ last_response = None

\* the audit entries stored and those that the busy workers may yet store
AuditLogsTaken == Len(audit_logs) + Cardinality({v \in Workers : Busy(v)})

\* a whole request to POST /detect
ResponderDetect ==
    /\ Len(detections) < MaxAssessments
    /\ AuditLogsTaken < MaxAuditLogs
    /\ \E c \in AuditDetectRequests :
         \E alerts_72h \in query_alerts_72h(
                               detections, c.request.user_id_hash, now) :
            \E done \in {detect_crisis(detector, c.request, c.x_api_key,
                                       companies, detections, audit_logs,
                                       now, "none", alerts_72h)} :
                /\ companies' = done.companies
                /\ detections' = done.detections
                /\ audit_logs' = done.audit_logs
                /\ last_response' = Answer("detect_crisis", c, done)
    /\ UNCHANGED <<detector, call, outcome, seen, company_responses,
                   compliance_reviews, workers, now>>

\* a whole request to POST /company/create with the admin key
ResponderCreateCompany ==
    /\ AuditLogsTaken < MaxAuditLogs
    /\ \E c \in {r \in CompanyCreates : r.x_admin_key # None} :
         \E done \in {create_company(c.company_data, c.x_admin_key, c.api_key,
                                     companies, company_responses,
                                     compliance_reviews, audit_logs, now)} :
            /\ companies' = done.companies
            /\ audit_logs' = done.audit_logs
            /\ last_response' = Answer("create_company", c, done)
    /\ UNCHANGED <<detector, call, outcome, seen, detections,
                   company_responses, compliance_reviews, workers, now>>

\* a worker takes a request to POST /report-response
ReceiveResponse(w) ==
    /\ ~Busy(w)
    /\ AuditLogsTaken < MaxAuditLogs
    /\ \E c \in CompanyResponseRequests :
          workers' = [workers EXCEPT ![w] = [pc |-> "check", c |-> c]]
    /\ UNCHANGED <<detector, call, outcome, seen, companies, detections,
                   audit_logs, company_responses, compliance_reviews, now,
                   last_response>>

\* submit_company_response, lines 116 to 159: the key, the detection, its
\* owner and the query for an existing response; 401 and 403 commit their
\* audit entry
CheckResponse(w) ==
    /\ workers[w].pc = "check"
    /\ \E done \in {submit_company_response(
                         workers[w].c.response_data, workers[w].c.x_api_key,
                         companies, detections, company_responses,
                         compliance_reviews, audit_logs, now)} :
          IF done.status = 200
          THEN /\ workers' = [workers EXCEPT ![w] =
                                 [pc |-> "commit", c |-> workers[w].c]]
               /\ UNCHANGED <<audit_logs, last_response>>
          ELSE /\ audit_logs' = done.audit_logs
               /\ last_response' = Answer("submit_company_response",
                                          workers[w].c, done)
               /\ workers' = [workers EXCEPT ![w] = Idle]
    /\ UNCHANGED <<detector, call, outcome, seen, companies, detections,
                   company_responses, compliance_reviews, now>>

\* submit_company_response, lines 161 to 219: the response and its audit
\* entry are committed together, or the commit raises IntegrityError
\* because a response for the detection is there by now
CommitResponse(w) ==
    /\ workers[w].pc = "commit"
    /\ \E done \in {submit_company_response(
                         workers[w].c.response_data, workers[w].c.x_api_key,
                         companies, detections, company_responses,
                         compliance_reviews, audit_logs, now)} :
          IF done.status = 200
          THEN /\ company_responses' = done.company_responses
               /\ audit_logs' = done.audit_logs
               /\ last_response' = Answer("submit_company_response",
                                          workers[w].c, done)
          ELSE /\ last_response' =
                      [handler |-> "submit_company_response",
                       request |-> workers[w].c, status |-> 500,
                       body |-> [error |-> "IntegrityError"]]
               /\ UNCHANGED <<company_responses, audit_logs>>
    /\ workers' = [workers EXCEPT ![w] = Idle]
    /\ UNCHANGED <<detector, call, outcome, seen, companies, detections,
                   compliance_reviews, now>>

NextResponders ==
    \/ ResponderDetect
    \/ ResponderCreateCompany
    \/ \E w \in Workers :
          \/ ReceiveResponse(w)
          \/ CheckResponse(w)
          \/ CommitResponse(w)

SpecResponders == InitResponders /\ [][NextResponders]_vars

\* ------------------------------------------------------------------------
\* _calculate_trajectory on windows of risk scores: every window of up to
\* MaxAlerts scores, and two longer ones whose second-half average is nine
\* tenths of the first-half average
\* ------------------------------------------------------------------------
MaxAlerts == 3

TrajectoryScores == {0, 40, 44, 60, 66, 80, 100}

LongTrajectoryWindows ==
    {<<30, 30, 40, 30, 30, 30>>,
     <<84, 84, 84, 84, 70, 70, 70, 84, 84>>,
     <<70, 70, 70, 77, 77, 77>>}

TrajectoryCalls ==
    {[fn |-> "_calculate_trajectory",
      alerts |-> [i \in 1..Len(w) |-> [risk_score |-> w[i]]]] :
         w \in SeqsUpTo(TrajectoryScores, MaxAlerts)
                   \cup LongTrajectoryWindows}

InitTrajectory ==
    /\ detector = CrisisDetector_init
    /\ call \in TrajectoryCalls
    /\ outcome = Pending
    /\ seen = <<>>
    /\ EmptyStore

CalculateTrajectory ==
    /\ call.fn = "_calculate_trajectory"
    /\ outcome = Pending
    /\ outcome' = Returned(calculate_trajectory(call.alerts))
    /\ UNCHANGED <<detector, call, seen, store>>

NextTrajectory == CalculateTrajectory

SpecTrajectory == InitTrajectory /\ [][NextTrajectory]_vars

\* ------------------------------------------------------------------------
\* Properties
\* ------------------------------------------------------------------------
DetectDone == call.fn = "detect" /\ outcome # Pending

NoPatternMatches(msg) ==
    /\ \A i \in 1..Len(CRISIS_KEYWORDS) : ~search(CRISIS_KEYWORDS[i], msg)
    /\ \A i \in 1..Len(GROOMING_KEYWORDS) : ~search(GROOMING_KEYWORDS[i], msg)
    /\ \A i \in 1..Len(VIOLENCE_KEYWORDS) : ~search(VIOLENCE_KEYWORDS[i], msg)

\* C1 (zero-match floor): a detect call on an utterance that matches no
\* crisis, grooming or violence pattern returns, for every context,
\* confidence 0, risk score 0 and the baseline tier (tier 4), with no
\* category flagged as detected.
C1_ZeroMatchFloor ==
    (DetectDone /\ call.message # None /\ NoPatternMatches(call.message.s)) =>
        /\ ~outcome.raised
        /\ outcome.value.confidence_score = FZero
        /\ outcome.value.risk_score = 0
        /\ outcome.value.risk_tier = "BASELINE"
        /\ tier_map(outcome.value.risk_tier) = 4
        /\ ~outcome.value.crisis_detected
        /\ ~outcome.value.grooming_detected
        /\ ~outcome.value.violence_detected
        /\ outcome.value.categories = <<>>

\* a zero-match utterance of several words (one of them a word of a crisis
\* pattern) was classified under a late-night, heavy-usage, minor-user context
C1_Witness ==
    /\ DetectDone
    /\ call.message = PyStr(<<"kill", "i", "tonight">>)
    /\ NoPatternMatches(call.message.s)
    /\ call.context = PyDict([time_of_day |-> S_3am,
                              session_count_today |-> PyInt(21),
                              user_age |-> PyInt(15)])
    /\ ~outcome.raised

ThresholdTier(score) ==
    IF score >= 90 THEN 1
    ELSE IF score >= 70 THEN 2
    ELSE IF score >= 50 THEN 3
    ELSE 4

\* C2: the tier is the top-down threshold function of the integer score
\* (>= 90 tier 1, >= 70 tier 2, >= 50 tier 3, else tier 4), and the
\* classifier's tier (mapped to a number by /detect) and the stratifier's
\* tier are the same for every score in 0..100.
C2_TierThresholds ==
    (call.fn = "assign_tier" /\ outcome # Pending) =>
        /\ outcome.value.classifier = ThresholdTier(call.score)
        /\ outcome.value.stratifier = ThresholdTier(call.score)
        /\ outcome.value.classifier = outcome.value.stratifier

\* the boundary score 90 was assigned tier 1 by both
C2_Witness ==
    /\ call.fn = "assign_tier"
    /\ outcome # Pending
    /\ call.score = 90
    /\ outcome.value.classifier = 1
    /\ outcome.value.stratifier = 1

\* C4 (clamp invariant): the confidence returned by detect lies in [0,1]
\* and its risk score in [0,100], whatever multipliers applied; the
\* final_score of calculate_risk_score lies in [0,100] for every base
\* confidence in [0,1].
C4_ClampInvariant ==
    /\ (DetectDone /\ ~outcome.raised) =>
           /\ FLeq(FZero, outcome.value.confidence_score)
           /\ FLeq(outcome.value.confidence_score, F_1_0)
           /\ outcome.value.risk_score \in 0..100
    /\ (call.fn = "calculate_risk_score" /\ outcome # Pending
            /\ ~outcome.raised) =>
           outcome.value.final_score \in 0..100

\* three multipliers applied to a score whose product with them exceeds 1,
\* and the result was clamped to exactly 1.0 / 100
C4_Witness ==
    /\ DetectDone
    /\ ~outcome.raised
    /\ Len(outcome.value.context_multipliers) = 3
    /\ outcome.value.confidence_score = F_1_0
    /\ outcome.value.risk_score = 100

\* C5: the integer risk score is round(c * 100) for the final confidence c,
\* in detect and in calculate_risk_score.
C5_RiskScoreIsRounded ==
    /\ (DetectDone /\ ~outcome.raised) =>
           outcome.value.risk_score =
               FRoundInt(FMul(outcome.value.confidence_score, F_100))
    /\ (call.fn = "calculate_risk_score" /\ outcome # Pending
            /\ ~outcome.raised) =>
           outcome.value.final_score =
               FRoundInt(FMin(FMul(outcome.value.base_score,
                                   outcome.value.multiplier), F_100))

\* C7: detect is total: for every utterance (the empty and the missing one
\* included) and every context it returns a result and never raises, and an
\* empty or missing utterance yields the baseline tier-4 result.
C7_DetectTotal ==
    DetectDone =>
        /\ ~outcome.raised
        /\ (call.message = None \/ call.message = PyStr(<<>>)) =>
               /\ outcome.value.risk_tier = "BASELINE"
               /\ outcome.value.risk_score = 0

SeverityRank(s) ==
    CASE s = "CRITICAL" -> 4 [] s = "HIGH" -> 3 [] s = "MEDIUM" -> 2
      [] s = "LOW" -> 1 [] s = "NONE" -> 0

\* C9: highest_severity is the maximum severity among the returned
\* violations under CRITICAL > HIGH > MEDIUM > LOW, and it is NONE iff the
\* violations list is empty (iff violations_detected is false and
\* violation_count is 0).
C9_HighestSeverity ==
    (call.fn = "check_boundary_violations" /\ outcome # Pending) =>
        LET r    == outcome.value
            sevs == {r.violations[i].severity : i \in 1..Len(r.violations)}
        IN  /\ ~outcome.raised
            /\ (r.highest_severity = "NONE") <=> (r.violations = <<>>)
            /\ r.violations_detected <=> (r.violations # <<>>)
            /\ r.violation_count = Len(r.violations)
            /\ (r.violation_count = 0) <=> (r.violations = <<>>)
            /\ r.violations # <<>> =>
                   /\ r.highest_severity \in sevs
                   /\ \A s \in sevs :
                          SeverityRank(s) <= SeverityRank(r.highest_severity)

\* a HIGH violation was found before a CRITICAL one, with a MEDIUM one
\* after it, and CRITICAL was reported
C9_Witness ==
    /\ call.fn = "check_boundary_violations"
    /\ outcome # Pending
    /\ Len(outcome.value.violations) >= 3
    /\ outcome.value.violations[1].severity = "HIGH"
    /\ outcome.value.violations[2].severity = "CRITICAL"
    /\ outcome.value.violations[Len(outcome.value.violations)].severity = "MEDIUM"
    /\ outcome.value.highest_severity = "CRITICAL"

\* Settings.LATE_NIGHT_HOURS of config.py
Settings_LATE_NIGHT_HOURS ==
    {<<"1", "2", "a", "m">>, <<"1", "a", "m">>, <<"2", "a", "m">>,
     <<"3", "a", "m">>, <<"4", "a", "m">>, <<"5", "a", "m">>,
     <<"6", "a", "m">>}

\* the hours config.py gives tiers 1 to 4
TIER_DEADLINE_HOURS == <<1, 4, 24, 72>>

\* C3 (deadline by tier): every detection stored by /detect has a reporting
\* deadline of the request time plus the hours of its tier, 1, 4, 24 and 72
\* hours for tiers 1 to 4; a zero-match utterance is stored with risk score
\* 0, tier 4 and the 72-hour deadline.
C3_DeadlineByTier ==
    \A i \in 1..Len(detections) :
        LET d == detections[i]
        IN  /\ d.reporting_deadline =
                   d.created_at + TIER_DEADLINE_HOURS[d.risk_tier]
            /\ NoPatternMatches(d.user_message.s) =>
                   /\ d.risk_score = 0
                   /\ d.risk_tier = 4
                   /\ d.reporting_deadline = d.created_at + 72

\* C6 (repeat alerts feed the risk computation): when a request of a user
\* with at least 2 detections in the last 14 days is answered and its
\* utterance matched a pattern, the multipliers applied by the classifier
\* include a x1.20 multiplier for the repeat alerts.
C6_RepeatAlertMultiplier ==
    (/\ last_response # None
     /\ last_response.status = 200
     /\ last_response.locals.previous_alerts >= 2
     /\ last_response.locals.detection_result.stage = 2) =>
        \E k \in 1..Len(last_response.locals.detection_result.context_multipliers) :
            LET m == last_response.locals.detection_result.context_multipliers[k]
            IN  m[1] # "high_usage" /\ m[2] = F_1_2

\* C8 (store failure is a signal, not a failure): a request during which the
\* store query of check_temporal_patterns fails is still answered with a
\* detection, whose temporal pattern is reported as insufficient data, and
\* the detection is stored.
C8_StoreFailureSurfaced ==
    (/\ last_response # None
     /\ last_response.fault = "temporal"
     /\ ~(last_response.status = 500 /\ last_response.body.error = "TypeError")) =>
        /\ last_response.status = 200
        /\ last_response.body.flags.temporal_pattern = "insufficient_data"
        /\ detections # <<>>
        /\ detections[Len(detections)].assessment_id =
               last_response.body.assessment_id

OwnRows(db_detections, user_id_hash) ==
    SelectSeq(db_detections, LAMBDA d : d.user_id_hash = user_id_hash)

\* what a response says about the exchange: risk score, tier, boundary
\* result and temporal signal
Signal(r) ==
    IF r.status = 200
    THEN [status |-> 200,
          risk_score |-> r.body.detection.risk_score,
          risk_tier |-> r.body.detection.risk_tier,
          boundary_result |-> r.locals.boundary_result,
          temporal_result |-> r.locals.temporal_result]
    ELSE [status |-> r.status]

\* the answers to request c if only the requests of its user had run
Solo(c) ==
    LET own == OwnRows(detections, c.request.user_id_hash)
    IN  {Signal(detect_crisis(detector, c.request, c.x_api_key, companies,
                              own, audit_logs, now, "none", a)) :
             a \in query_alerts_72h(own, c.request.user_id_hash, now)}

\* C11 (independent requests): whenever a worker finishes a request, the
\* risk score, tier, boundary result and temporal signal of its response are
\* those the request has when handled alone on the rows of its own user,
\* whatever requests of other users the other workers handle meanwhile; and
\* the shared detector is never written after construction.
C11_RequestsIndependent ==
    /\ [][\A w \in Workers :
              (w \in DOMAIN workers /\ Busy(w) /\ ~Busy(w)')
                  => Signal(last_response') \in Solo(workers[w].c)]_vars
    /\ [](detector = CrisisDetector_init)


\* the patterns of a list that match an utterance
MatchedPatterns(msg, patterns) ==
    {i \in 1..Len(patterns) : search(patterns[i], msg)}

\* the category scores of detect (lines 189 to 199) for an utterance
CategoryScores(self, msg) ==
    [crisis   |-> adjust_crisis_score(
                      base_category_score(
                          count_matches(msg, self.crisis_keywords)),
                      extract_features(msg)),
     grooming |-> adjust_grooming_score(
                      base_category_score(
                          count_matches(msg, self.grooming_keywords)),
                      extract_features(msg)),
     violence |-> adjust_violence_score(
                      base_category_score(
                          count_matches(msg, self.violence_keywords)),
                      extract_features(msg))]

Categories == {"crisis", "grooming", "violence"}

KeywordsOf(self, category) ==
    CASE category = "crisis" -> self.crisis_keywords
      [] category = "grooming" -> self.grooming_keywords
      [] category = "violence" -> self.violence_keywords

\* no lexical feature of utterance a is larger than that of utterance b
FeaturesNotSmaller(a, b) ==
    LET fa == extract_features(a)
        fb == extract_features(b)
    IN  /\ \A k \in {"first_person_count", "negative_count", "future_count",
                     "urgency_count", "question_count", "imperative_count",
                     "word_count"} : fa[k] <= fb[k]
        /\ \A k \in {"has_first_person", "has_negative", "has_urgency"} :
               FLeq(fa[k], fb[k])

\* both calls of the pair returned, the second utterance matches every
\* pattern the first matches and its features are not smaller
PairDominates ==
    /\ Len(seen) = 2
    /\ ~seen[1].raised /\ ~seen[2].raised
    /\ \A c \in Categories :
           MatchedPatterns(call.first.s, KeywordsOf(detector, c))
               \subseteq MatchedPatterns(call.second.s, KeywordsOf(detector, c))
    /\ FeaturesNotSmaller(call.first.s, call.second.s)

\* the second utterance matches a pattern of category c that the first
\* does not
PairAdds(c) ==
    MatchedPatterns(call.second.s, KeywordsOf(detector, c))
        # MatchedPatterns(call.first.s, KeywordsOf(detector, c))

\* C12 (monotonicity): in a fixed context, an utterance that matches every
\* pattern another one matches, and one more pattern of some category, with
\* lexical features not smaller, has a score of that category that is not
\* lower, and a final confidence that is not lower.
C12_Monotone ==
    PairDominates =>
        \A c \in Categories :
            PairAdds(c) =>
                /\ FLeq(CategoryScores(detector, call.first.s)[c],
                        CategoryScores(detector, call.second.s)[c])
                /\ FLeq(seen[1].value.confidence_score,
                        seen[2].value.confidence_score)

\* "suicide" and then "suicide hopeless" with no context: a second crisis
\* pattern takes the confidence from 0.7 to 0.85
C12_Witness ==
    /\ PairDominates
    /\ PairAdds("crisis")
    /\ call.first.s = <<"suicide">>
    /\ call.context = None
    /\ seen[1].value.confidence_score = F_0_7
    /\ FLess(seen[1].value.confidence_score, seen[2].value.confidence_score)

\* the orders in which the items of a dict can be stored
Orders(mult) ==
    {[i \in 1..Len(mult) |-> mult[p[i]]] : p \in Permutations(1..Len(mult))}

DetectScored ==
    /\ DetectDone
    /\ ~outcome.raised
    /\ outcome.value.stage = 2
    /\ call.context # None

\* the factor recorded under a name in the applied multipliers, None if
\* the name is not there
AppliedFactor(multipliers, name) ==
    IF \E i \in 1..Len(multipliers) : multipliers[i][1] = name
    THEN (CHOOSE item \in {multipliers[i] : i \in 1..Len(multipliers)} :
              item[1] = name)[2]
    ELSE None

\* the dominant category score of an utterance
DominantScore(self, msg) ==
    FMax3(CategoryScores(self, msg).crisis, CategoryScores(self, msg).grooming,
          CategoryScores(self, msg).violence)

\* the confidence is the dominant score times the recorded multipliers,
\* capped at 1.0
MultipliersApplied ==
    outcome.value.confidence_score =
        FMin(MulAll(DominantScore(detector, call.message.s),
                    outcome.value.context_multipliers), F_1_0)

\* C14 (minor user): detect applies the multiplier 1.30 to the dominant score
\* and records it as minor_user exactly when the context has a user_age
\* below 18 (any integer age from 0 to 17), and not when the age is absent
\* or 18 and over.
C14_MinorUserMultiplier ==
    DetectScored =>
        LET age == DictGet(call.context.items, "user_age", None)
        IN  /\ MultipliersApplied
            /\ (age # None /\ age.v < 18) =>
                   AppliedFactor(outcome.value.context_multipliers,
                                 "minor_user") = F_1_3
            /\ (age = None \/ age.v >= 18) =>
                   AppliedFactor(outcome.value.context_multipliers,
                                 "minor_user") = None

\* C15 (late night): in detect, a time-of-day label of the configured
\* late-night set (whatever its case) applies the multiplier 1.15 to the
\* dominant score and records it as late_night, and a label outside the set
\* applies no late-night multiplier.
C15_LateNightMultiplier ==
    (DetectScored
         /\ DictGet(call.context.items, "time_of_day", None) # None) =>
        LET label == Lower(call.context.items.time_of_day.s)
        IN  /\ MultipliersApplied
            /\ label \in Settings_LATE_NIGHT_HOURS =>
                   AppliedFactor(outcome.value.context_multipliers,
                                 "late_night") = F_1_15
            /\ label \notin Settings_LATE_NIGHT_HOURS =>
                   AppliedFactor(outcome.value.context_multipliers,
                                 "late_night") = None

\* the number of rows of a user newer than now - hours, of tier at most
\* max_tier
CountRows(user_id_hash, hours, max_tier) ==
    Cardinality({i \in 1..Len(detections) :
                    /\ detections[i].user_id_hash = user_id_hash
                    /\ detections[i].timestamp > now - hours
                    /\ detections[i].risk_tier <= max_tier})

TemporalDone == call.fn = "check_temporal_patterns" /\ outcome # Pending

\* C16 (temporal classification): with n72 the number of the user's
\* detections of tier 1 or 2 in the last 72 hours and n14 the number of the
\* user's detections in the last 14 days, the pattern is repeat_alerts_72h
\* if n72 >= 2, else multiple_alerts_14d with trajectory monitoring if
\* n14 >= 3, else isolated_event with trajectory stable; the rows of other
\* users do not count.
C16_TemporalPriority ==
    TemporalDone =>
        LET n72 == CountRows(call.user_id_hash, 72, 2)
            n14 == CountRows(call.user_id_hash, 14 * 24, 4)
            result == outcome.value
        IN  /\ result.alerts_72h = n72
            /\ result.alerts_14d = n14
            /\ n72 >= 2 => result.pattern = "repeat_alerts_72h"
            /\ (n72 < 2 /\ n14 >= 3) =>
                   /\ result.pattern = "multiple_alerts_14d"
                   /\ result.trajectory = "monitoring"
            /\ (n72 < 2 /\ n14 < 3) =>
                   /\ result.pattern = "isolated_event"
                   /\ result.trajectory = "stable"

\* three detections of the user in the last 14 days, one of them an alert
\* of the last 72 hours, next to a recent alert of another user: the
\* pattern is multiple_alerts_14d
C16_Witness ==
    /\ TemporalDone
    /\ Len(detections) = 4
    /\ CountRows("u2", 72, 2) = 1
    /\ CountRows("u1", 72, 2) = 1
    /\ CountRows("u1", 14 * 24, 4) = 3
    /\ outcome.value.pattern = "multiple_alerts_14d"
    /\ outcome.value.trajectory = "monitoring"

\* some pattern of a category matches the utterance
Matches(self, category, msg) ==
    MatchedPatterns(msg, KeywordsOf(self, category)) # {}

\* the category that the patterns give an utterance
PatternCategory(self, msg) ==
    IF NoPatternMatches(msg) THEN "SAFE"
    ELSE IF Matches(self, "crisis", msg) THEN "CRISIS"
    ELSE IF Matches(self, "grooming", msg) THEN "GROOMING"
    ELSE "VIOLENCE"

\* C17 (test runner): for every message, the category the test runner gives
\* the detection agrees with the expected category of the test set; it is
\* SAFE exactly when the tier is BASELINE, which is exactly when no pattern
\* of any category matches; otherwise it is CRISIS if a crisis pattern
\* matches, else GROOMING if a grooming pattern matches, else VIOLENCE; it is
\* never UNKNOWN.
C17_TestCategory ==
    (call.fn = "run_tests" /\ outcome # Pending) =>
        LET msg == call.message.s
        IN  /\ ~outcome.raised
            /\ \A row \in TestSetRows :
                   (row.message = msg
                        /\ row.expected_category = call.expected)
                       => outcome.value.is_correct
            /\ outcome.value.detected # "UNKNOWN"
            /\ outcome.value.detected = "SAFE"
                   <=> outcome.value.tier = "BASELINE"
            /\ outcome.value.tier = "BASELINE" <=> NoPatternMatches(msg)
            /\ outcome.value.detected = PatternCategory(detector, msg)

\* C17, the part about the categorisation alone: the category follows the
\* tier and the matching patterns, whatever category the test case expects
C17_PatternCategory ==
    (call.fn = "run_tests" /\ outcome # Pending) =>
        LET msg == call.message.s
        IN  /\ ~outcome.raised
            /\ outcome.value.detected # "UNKNOWN"
            /\ outcome.value.detected = "SAFE"
                   <=> outcome.value.tier = "BASELINE"
            /\ outcome.value.tier = "BASELINE" <=> NoPatternMatches(msg)
            /\ outcome.value.detected = PatternCategory(detector, msg)

\* a message with a grooming pattern and a crisis pattern is CRISIS
C17_Witness ==
    /\ call.fn = "run_tests"
    /\ outcome # Pending
    /\ call.message.s = <<"selfie", "suicide">>
    /\ outcome.value.detected = "CRISIS"

\* the audit entries of one event type about one entity
AuditEntries(event_type, entity_id) ==
    {j \in 1..Len(audit_logs) :
        /\ audit_logs[j].event_type = event_type
        /\ audit_logs[j].entity_id = entity_id}

\* the request just answered was a review submission that was accepted
ReviewAccepted(response) ==
    /\ response # None
    /\ response.handler = "submit_review"
    /\ response.status = 200

\* C18 (audit trail): after any sequence of detection, company-response and
\* review submissions, every stored Detection and every stored
\* CompanyResponse has its audit-log entry, every accepted review submission
\* appends one about its assessment, and no step changes or removes an
\* audit-log entry that exists: the log only grows.
C18_AuditTrail ==
    /\ [](\A i \in 1..Len(detections) :
             AuditEntries("detection_created",
                          detections[i].assessment_id) # {})
    /\ [](\A i \in 1..Len(company_responses) :
             AuditEntries("company_response_submitted",
                          company_responses[i].assessment_id) # {})
    /\ [][ReviewAccepted(last_response') =>
             /\ Len(audit_logs') = Len(audit_logs) + 1
             /\ audit_logs'[Len(audit_logs')].event_type
                    = "compliance_review_submitted"
             /\ audit_logs'[Len(audit_logs')].details.assessment_id
                    = last_response'.request.assessment_id]_vars
    /\ [][/\ Len(audit_logs') >= Len(audit_logs)
          /\ SubSeq(audit_logs', 1, Len(audit_logs)) = audit_logs]_vars

\* a detection, its company response and a review of it that was updated,
\* each with its audit entry
C18_Witness ==
    /\ Len(detections) >= 1
    /\ Len(company_responses) = 1
    /\ Len(compliance_reviews) = 1
    /\ ReviewAccepted(last_response)
    /\ last_response.body.message = "Review updated successfully"
    /\ Len(audit_logs) = MaxAuditLogs

\* the number of distinct patterns of a category that match an utterance
MatchCount(self, category, msg) ==
    Cardinality(MatchedPatterns(msg, KeywordsOf(self, category)))

\* 0 for no matching pattern, else min(0.7 + (n-1)*0.1, 1.0), in binary64
BaseScoreOf(n) ==
    IF n = 0 THEN FZero
    ELSE FMin(FAdd(F_0_7, FMul(FFromInt(n - 1), F_0_1)), F_1_0)

\* the feature adjustment of a category on a score
Adjusted(category, score, features) ==
    CASE category = "crisis" -> adjust_crisis_score(score, features)
      [] category = "grooming" -> adjust_grooming_score(score, features)
      [] category = "violence" -> adjust_violence_score(score, features)

\* the flag of a category in a detection result
DetectedFlag(result, category) ==
    CASE category = "crisis" -> result.crisis_detected
      [] category = "grooming" -> result.grooming_detected
      [] category = "violence" -> result.violence_detected

\* C19 (base category score): the score of a category before the feature
\* adjustment depends only on the number n of distinct patterns of the
\* category that match, each counted once: 0 for n = 0 and
\* min(0.7 + (n-1)*0.1, 1.0) for n >= 1; so the final score of a category is
\* 0, and the category is not flagged, exactly when none of its patterns
\* matches, and without multipliers the confidence is the largest adjusted
\* score of the three.
C19_BaseCategoryScore ==
    (DetectDone /\ call.message # None /\ ~outcome.raised) =>
        LET msg == call.message.s
            f   == extract_features(msg)
            score(c) == Adjusted(c, BaseScoreOf(MatchCount(detector, c, msg)),
                                 f)
        IN  /\ \A c \in Categories :
                   /\ DetectedFlag(outcome.value, c)
                          <=> MatchCount(detector, c, msg) > 0
                   /\ score(c) = FZero <=> MatchCount(detector, c, msg) = 0
                   /\ (c \in {outcome.value.categories[i] :
                                  i \in 1..Len(outcome.value.categories)})
                          <=> MatchCount(detector, c, msg) > 0
            /\ outcome.value.context_multipliers = <<>> =>
                   outcome.value.confidence_score =
                       FMin(FMax3(score("crisis"), score("grooming"),
                                  score("violence")), F_1_0)

\* one pattern matching twice counts once (0.7), and five matching crisis
\* patterns reach the cap
C19_Witness ==
    /\ DetectDone
    /\ call.context = None
    /\ \/ /\ call.message = PyStr(<<"suicide", "suicide">>)
          /\ outcome.value.confidence_score = F_0_7
       \/ /\ call.message # None
          /\ MatchCount(detector, "crisis", call.message.s) = 5
          /\ outcome.value.confidence_score = F_1_0

\* the terms that the features add to the score of a category, in the
\* order of the adjustment
AdjustmentTerms(category, f) ==
    CASE category = "crisis" ->
             (IF f.first_person_count > 0 THEN <<F_0_05>> ELSE <<>>)
             \o (IF f.negative_count > 0 THEN <<F_0_05>> ELSE <<>>)
             \o (IF f.urgency_count > 0 THEN <<F_0_1>> ELSE <<>>)
      [] category = "grooming" ->
             (IF f.question_count > 1 THEN <<F_0_05>> ELSE <<>>)
             \o (IF f.imperative_count > 1 THEN <<F_0_05>> ELSE <<>>)
      [] category = "violence" ->
             (IF f.future_count > 0 THEN <<F_0_05>> ELSE <<>>)
             \o (IF f.urgency_count > 0 THEN <<F_0_1>> ELSE <<>>)

\* a score plus the terms, one after the other, without a cap in between
RECURSIVE SumTerms(_, _)
SumTerms(score, terms) ==
    IF terms = <<>> THEN score
    ELSE SumTerms(FAdd(score, Head(terms)), Tail(terms))

\* min(sum, 1.0) for a nonzero score, 0 for 0
CappedSum(category, base, f) ==
    IF base = FZero THEN FZero
    ELSE FMin(SumTerms(base, AdjustmentTerms(category, f)), F_1_0)

\* C20 (feature adjustments): the adjustments are additive and capped after
\* all are added: a nonzero crisis score gains 0.05 for a first-person word,
\* 0.05 for a negative word and 0.10 for an urgency word; a nonzero grooming
\* score 0.05 for more than one question word and 0.05 for more than one
\* imperative; a nonzero violence score 0.05 for a future word and 0.10 for
\* an urgency word; the result is min(sum, 1.0) and a score of 0 stays 0
\* whatever the features are.  Seen in the result: a category is flagged
\* exactly when its capped sum is at least 0.5, and without multipliers the
\* confidence is the largest capped sum.
C20_FeatureAdjustments ==
    (DetectDone /\ call.message # None /\ ~outcome.raised) =>
        LET msg == call.message.s
            f   == extract_features(msg)
            sum(c) == CappedSum(c, BaseScoreOf(MatchCount(detector, c, msg)),
                                f)
        IN  /\ \A c \in Categories :
                   /\ DetectedFlag(outcome.value, c) <=> FLeq(F_0_5, sum(c))
                   /\ MatchCount(detector, c, msg) = 0 => sum(c) = FZero
                   /\ Adjusted(c, BaseScoreOf(MatchCount(detector, c, msg)), f)
                          = sum(c)
            /\ (outcome.value.stage = 2
                    /\ outcome.value.context_multipliers = <<>>) =>
                   outcome.value.confidence_score =
                       FMax3(sum("crisis"), sum("grooming"), sum("violence"))

\* "I want to kill myself tonight" with sessionCountToday 0: two crisis
\* patterns, a first-person word and an urgency word give 0.95, risk score
\* 95, the critical tier and a deadline of one hour
C20_Witness ==
    /\ DetectDone
    /\ call.message = PyStr(<<"i", "want", "to", "kill", "myself", "tonight">>)
    /\ call.context = PyDict([time_of_day |-> None,
                              session_count_today |-> PyInt(0),
                              user_age |-> None])
    /\ MatchCount(detector, "crisis", call.message.s) = 2
    /\ outcome.value.context_multipliers = <<>>
    /\ outcome.value.confidence_score = FLit(95, 100)
    /\ outcome.value.risk_score = 95
    /\ outcome.value.risk_tier = "CRITICAL"
    /\ outcome.value.response_deadline_hours = 1

\* the replies of the last n prior turns that match a pattern table, each
\* reply once, plus the current reply if it matches
WindowCount(history, bot_msg, patterns, n) ==
    Cardinality({i \in 1..Len(history) :
                    /\ i > Len(history) - n
                    /\ "bot" \in DOMAIN history[i]
                    /\ history[i].bot.s # <<>>
                    /\ any_search(patterns, LowerText(history[i].bot.s))})
    + (IF any_search(patterns, LowerText(bot_msg.s)) THEN 1 ELSE 0)

\* the violations of a type in a result
ViolationsOfType(result, type) ==
    {i \in 1..Len(result.violations) : result.violations[i].type = type}

BoundaryDone == call.fn = "check_boundary_violations" /\ outcome # Pending

\* C21 (cumulative rules): isolation_cultivation (HIGH) is reported exactly
\* when at least 2 replies among the last 10 prior turns and the current
\* reply match an isolation pattern, sycophantic_amplification (MEDIUM)
\* exactly when at least 2 replies among the last 5 prior turns and the
\* current reply match a sycophantic pattern; each reply counts once and
\* turns older than the window do not count.
C21_CumulativeWindows ==
    BoundaryDone =>
        LET history == IF call.history = None THEN <<>> ELSE call.history.elems
            result  == outcome.value
            iso     == ViolationsOfType(result, "isolation_cultivation")
            syc     == ViolationsOfType(result, "sycophantic_amplification")
        IN  /\ ~outcome.raised
            /\ iso # {} <=>
                   WindowCount(history, call.bot_msg, ISOLATION_PATTERNS, 10)
                       >= 2
            /\ syc # {} <=>
                   WindowCount(history, call.bot_msg, SYCOPHANTIC_PATTERNS, 5)
                       >= 2
            /\ Cardinality(iso) <= 1 /\ Cardinality(syc) <= 1
            /\ \A i \in iso : result.violations[i].severity = "HIGH"
            /\ \A i \in syc : result.violations[i].severity = "MEDIUM"

\* a sycophantic reply six turns back and a sycophantic current reply: the
\* old turn is outside the window of 5 and nothing is reported, while an
\* isolation reply eleven turns back is outside the window of 10
C21_Witness ==
    /\ BoundaryDone
    /\ call.history # None
    /\ Len(call.history.elems) = 11
    /\ call.history.elems[1].bot = PyStr(<<"you don't need them">>)
    /\ call.history.elems[6].bot = PyStr(<<"you're amazing">>)
    /\ call.bot_msg = PyStr(<<"you're amazing">>)
    /\ outcome.value.violations = <<>>

\* phrases of the delusion markers and of the validation phrases
DelusionMarkerPhrases == {"conspiracy", "tracking me", "they are watching"}

ValidationPhrasePhrases == {"i agree", "makes sense"}

MentionsOneOf(msg, phrases) ==
    \E i \in 1..Len(msg.s) : LowerPhrase(msg.s[i]) \in phrases

\* C22 (delusion reinforcement): a delusion_reinforcement violation, of
\* severity HIGH, is reported exactly when the user utterance matches a
\* delusion marker and the reply matches a validation phrase; one of the
\* two alone gives none, and neither the history nor what the other five
\* rules find changes that.
C22_DelusionReinforcement ==
    BoundaryDone =>
        LET result == outcome.value
            del    == ViolationsOfType(result, "delusion_reinforcement")
        IN  /\ ~outcome.raised
            /\ del # {} <=>
                   /\ MentionsOneOf(call.user_msg, DelusionMarkerPhrases)
                   /\ MentionsOneOf(call.bot_msg, ValidationPhrasePhrases)
            /\ Cardinality(del) <= 1
            /\ \A i \in del : result.violations[i].severity = "HIGH"

\* "they are watching me and tracking me" answered by "I agree, that makes
\* sense": one violation, delusion_reinforcement, highest severity HIGH
C22_Witness ==
    /\ BoundaryDone
    /\ call.user_msg = PyStr(<<"they are watching", "tracking me">>)
    /\ call.bot_msg = PyStr(<<"I Agree", "makes sense">>)
    /\ outcome.value.violation_count = 1
    /\ outcome.value.violations[1].type = "delusion_reinforcement"
    /\ outcome.value.violations[1].severity = "HIGH"
    /\ outcome.value.highest_severity = "HIGH"

\* the trajectory of a window by the rule, in exact arithmetic: with h the
\* first floor(n/2) scores, a the sum of these and b the sum of the others,
\* b/(n-h) > 1.1 * a/h  is  10*b*h > 11*a*(n-h)
TrajectoryByRule(alerts) ==
    LET n == Len(alerts)
        h == n \div 2
        a == SumScores(SubSeq(alerts, 1, h))
        b == SumScores(SubSeq(alerts, h + 1, n))
    IN  IF n < 2 THEN "insufficient_data"
        ELSE IF 10 * b * h > 11 * a * (n - h) THEN "escalating"
        ELSE IF 10 * b * h < 9 * a * (n - h) THEN "de-escalating"
        ELSE "stable"

\* C23 (trajectory): for a window of n >= 2 risk scores in timestamp order
\* the trajectory is escalating if the average of the scores after the
\* first floor(n/2) is more than 10% above the average of the first
\* floor(n/2), de-escalating if it is more than 10% below, otherwise
\* stable; fewer than 2 scores give insufficient_data.
C23_Trajectory ==
    (call # None /\ call.fn = "_calculate_trajectory" /\ outcome # Pending) =>
        /\ ~outcome.raised
        /\ outcome.value = TrajectoryByRule(call.alerts)

\* the scores 40, 60, 80: escalating
C23_Example ==
    /\ call # None
    /\ call.fn = "_calculate_trajectory"
    /\ outcome # Pending
    /\ call.alerts = <<[risk_score |-> 40], [risk_score |-> 60],
                       [risk_score |-> 80]>>
    /\ outcome.value = "escalating"

\* all matching patterns of the three tables, in the order of the tables
AllKeywords(self, msg) ==
    MatchedIn("crisis", self.crisis_keywords, msg)
    \o MatchedIn("grooming", self.grooming_keywords, msg)
    \o MatchedIn("violence", self.violence_keywords, msg)

\* C24 (keywords cap): the keywords of a result are the first at most 10
\* entries of the list of all matching patterns in the order crisis,
\* grooming, violence and table order; the list is never longer than 10,
\* and the cut changes no score, tier or flag: a category is flagged by its
\* matching patterns whether or not its entries are among the keywords,
\* and confidence, risk score and tier are those of the full match counts.
C24_KeywordsCap ==
    (DetectDone /\ call.message # None /\ ~outcome.raised
         /\ outcome.value.stage = 2) =>
        LET msg == call.message.s
            r   == outcome.value
            kw  == r.keywords_matched
            all == AllKeywords(detector, msg)
            f   == extract_features(msg)
            score(c) == Adjusted(c, BaseScoreOf(MatchCount(detector, c, msg)),
                                 f)
        IN  /\ Len(kw) <= 10
            /\ Len(kw) = (IF Len(all) < 10 THEN Len(all) ELSE 10)
            /\ kw = SubSeq(all, 1, Len(kw))
            /\ Len(all) = MatchCount(detector, "crisis", msg)
                              + MatchCount(detector, "grooming", msg)
                              + MatchCount(detector, "violence", msg)
            /\ \A c \in Categories :
                   DetectedFlag(r, c) <=> MatchCount(detector, c, msg) > 0
            /\ r.context_multipliers = <<>> =>
                   r.confidence_score =
                       FMin(FMax3(score("crisis"), score("grooming"),
                                  score("violence")), F_1_0)
            /\ r.risk_score = FTrunc(FMul(r.confidence_score, F_100))
            /\ r.risk_tier = assign_tier(r.risk_score)[1]

\* eleven patterns match, ten keywords are returned, and the violence
\* pattern that was cut off is still flagged
C24_Witness ==
    /\ DetectDone
    /\ call.message # None
    /\ ~outcome.raised
    /\ Len(AllKeywords(detector, call.message.s)) = 11
    /\ Len(outcome.value.keywords_matched) = 10
    /\ outcome.value.violence_detected
    /\ \A i \in 1..10 : outcome.value.keywords_matched[i][1] # "violence"
    /\ outcome.value.risk_score = 100

\* C25 (score gap): detect never returns a risk score from 1 to 69: the
\* score is 0 (no pattern matched, tier BASELINE) or at least 70, so every
\* result with a matching pattern has tier CRITICAL or HIGH and ELEVATED is
\* never returned; a category is flagged exactly when at least one of its
\* patterns matched.
C25_ScoreGap ==
    (DetectDone /\ call.message # None /\ ~outcome.raised) =>
        LET msg == call.message.s
            r   == outcome.value
            matched == \E c \in Categories : MatchCount(detector, c, msg) > 0
        IN  /\ r.risk_score = 0 \/ (r.risk_score >= 70 /\ r.risk_score <= 100)
            /\ matched => r.risk_tier \in {"CRITICAL", "HIGH"}
            /\ matched <=> r.risk_score >= 70
            /\ ~matched => (r.risk_score = 0 /\ r.risk_tier = "BASELINE")
            /\ r.risk_tier # "ELEVATED"
            /\ \A c \in Categories :
                   DetectedFlag(r, c) <=> MatchCount(detector, c, msg) > 0

\* one matching pattern and no multiplier: the lowest score of a match, 70
C25_Witness ==
    /\ DetectDone
    /\ call.message = PyStr(<<"selfie">>)
    /\ ~outcome.raised
    /\ outcome.value.risk_score = 70
    /\ outcome.value.risk_tier = "HIGH"
    /\ outcome.value.grooming_detected
    /\ ~outcome.value.crisis_detected

\* the numeric tier of an integer risk score
TierOfScore(score) ==
    IF score >= 90 THEN 1
    ELSE IF score >= 70 THEN 2
    ELSE IF score >= 50 THEN 3
    ELSE 4

\* C26 (stored tier and score): after any sequence of /detect requests the
\* risk_tier of every stored Detection is the tier of its stored
\* risk_score (1 iff score >= 90, 2 iff 70..89, 3 iff 50..69, 4 iff < 50),
\* so every detection that the 72-hour query of tier <= 2 selects has a
\* risk score of at least 70.
C26_StoredTierConsistent ==
    /\ \A i \in 1..Len(detections) :
           detections[i].risk_tier = TierOfScore(detections[i].risk_score)
    /\ \A u \in ApiUsers :
           \A alerts \in query_alerts_72h(detections, u, now) :
               \A i \in 1..Len(alerts) : alerts[i].risk_score >= 70

\* detections of tier 1, 2 and 4 are stored, and the 72-hour query of a
\* user selects two of them
C26_Witness ==
    /\ \E i, j, k \in 1..Len(detections) :
           /\ detections[i].risk_tier = 1 /\ detections[i].risk_score >= 90
           /\ detections[j].risk_tier = 2 /\ detections[j].risk_score = 70
           /\ detections[k].risk_tier = 4 /\ detections[k].risk_score = 0
    /\ \E u \in ApiUsers :
           \E alerts \in query_alerts_72h(detections, u, now) :
               Len(alerts) = 2

\* the detections of a user in the store
DetectionsOf(u) ==
    {i \in 1..Len(detections) : detections[i].user_id_hash = u}

\* the detection_created entries of the audit log for an assessment
CreatedEntries(assessment_id) ==
    {k \in 1..Len(audit_logs) :
        /\ audit_logs[k].event_type = "detection_created"
        /\ audit_logs[k].entity_id = assessment_id}

\* a worker commits its detection in this step
Commits(w) == workers[w].pc = "commit" /\ workers'[w].pc = "idle"

\* C27 (temporal signal before the own detection): within one /detect
\* request the temporal signal is computed before the request's own
\* Detection is stored, so it counts the user's earlier detections only,
\* and for the first detection of a user it is alerts_14d = 0, pattern
\* isolated_event, trajectory stable; the Detection and its
\* detection_created audit entry appear in the store in the same step.
C27_TemporalBeforeOwn ==
    /\ [](\A i \in 1..Len(detections) :
              Cardinality(CreatedEntries(detections[i].assessment_id)) = 1)
    /\ [](Cardinality({k \in 1..Len(audit_logs) :
                          audit_logs[k].event_type = "detection_created"})
             = Len(detections))
    /\ [][\A w \in Workers :
             Commits(w) =>
                 LET u == workers[w].c.request.user_id_hash
                     t == workers[w].locals.temporal_result
                 IN  /\ t.alerts_14d =
                            get_previous_alerts_count(detections, u, now, 14)
                     /\ t.alerts_14d <= Cardinality(DetectionsOf(u))
                     /\ DetectionsOf(u) = {} =>
                            /\ t.alerts_14d = 0
                            /\ t.alerts_72h = 0
                            /\ t.pattern = "isolated_event"
                            /\ t.trajectory = "stable"
                     /\ Len(detections') = Len(detections) + 1
                     /\ Len(audit_logs') = Len(audit_logs) + 1
                     /\ detections'[Len(detections')].user_id_hash = u
                     /\ audit_logs'[Len(audit_logs')].event_type
                            = "detection_created"
                     /\ audit_logs'[Len(audit_logs')].entity_id
                            = detections'[Len(detections')].assessment_id
                     /\ last_response'.locals.temporal_result = t]_vars

\* the first detection of a user has just been committed, after a
\* detection of the other user: its signal is that of an isolated event,
\* and its audit entry is there
C27_Witness ==
    /\ Len(detections) = 2
    /\ detections[1].user_id_hash # detections[2].user_id_hash
    /\ last_response # None
    /\ last_response.status = 200
    /\ last_response.body.assessment_id = detections[2].assessment_id
    /\ last_response.locals.temporal_result.alerts_14d = 0
    /\ last_response.locals.temporal_result.pattern = "isolated_event"
    /\ last_response.locals.temporal_result.trajectory = "stable"
    /\ Cardinality(CreatedEntries(detections[2].assessment_id)) = 1

\* C28 (72 hours within 14 days): for every content of the store and every
\* user the number of 72-hour alerts is at most the 14-day count, also in
\* the result of a call during which other detections were inserted
\* between its two queries.
C28_Alerts72hWithin14d ==
    /\ \A u \in {"u1", "u2"} :
           \A alerts \in query_alerts_72h(detections, u, now) :
               Len(alerts) <= get_previous_alerts_count(detections, u, now, 14)
    /\ outcome # Pending =>
           /\ ~outcome.raised
           /\ outcome.value.alerts_72h <= outcome.value.alerts_14d
           /\ outcome.value.alerts_72h = Len(workers[1].alerts_72h)

\* a detection of the user was inserted between the two queries: one
\* 72-hour alert was read, two rows were counted
C28_Witness ==
    /\ outcome # Pending
    /\ workers[1].pc = "done"
    /\ workers[1].rows_counted > workers[1].rows_read
    /\ outcome.value.alerts_72h = 1
    /\ outcome.value.alerts_14d = 2

\* the stored responses of an assessment
ResponsesOf(a) ==
    {i \in 1..Len(company_responses) : company_responses[i].assessment_id = a}

\* each assessment has at most one stored response, whose detection exists
\* and belongs to the company of the response
AtMostOneResponse ==
    \A i \in 1..Len(company_responses) :
        /\ Cardinality(ResponsesOf(company_responses[i].assessment_id)) = 1
        /\ \E d \in 1..Len(detections) :
               /\ detections[d].assessment_id
                      = company_responses[i].assessment_id
               /\ detections[d].id = company_responses[i].detection_id
               /\ detections[d].company_id = company_responses[i].company_id

\* a request to /report-response leaves the responses, the detections and
\* (unless it is answered 401 or 403) the audit log as they are whenever it
\* is not answered 200
RejectedChangesNothing ==
    [][\A w \in Workers :
          (Busy(w) /\ ~Busy(w)' /\ last_response'.status # 200) =>
              /\ company_responses' = company_responses
              /\ detections' = detections
              /\ last_response'.status \notin {401, 403} =>
                     audit_logs' = audit_logs]_vars

\* C29 (one response per assessment): after any sequence or interleaving
\* of /report-response submissions each assessment has at most one stored
\* CompanyResponse; a submission for an assessment that has a response by
\* the time it would store its own is answered 400 and stores nothing, and
\* so every submission is answered 200, 400, 401, 403 or 404.
C29_OneResponsePerAssessment ==
    /\ AtMostOneResponse
    /\ (last_response # None
           /\ last_response.handler = "submit_company_response") =>
          /\ last_response.status \in {200, 400, 401, 403, 404}
          /\ last_response.status = 400 =>
                 ResponsesOf(last_response.request.response_data
                                 .assessment_id) # {}

\* the reviews of the detection of an assessment
ReviewsOf(a) ==
    {i \in 1..Len(compliance_reviews) :
        \E d \in 1..Len(detections) :
            /\ detections[d].assessment_id = a
            /\ detections[d].id = compliance_reviews[i].detection_id}

\* the status stored for an assessment status
MappedStatus(assessment_status) ==
    CASE assessment_status = "compliant" -> "approved"
      [] assessment_status = "needs_followup" -> "revision_requested"
      [] assessment_status = "non_compliant" -> "escalated"
      [] OTHER -> assessment_status

\* C30 (one review per detection): after any sequence of /review/submit
\* calls each Detection has at most one ComplianceReview: the first
\* accepted submission creates it, every later one for the same assessment
\* overwrites its status and fields in place without adding a review, a
\* submission for an unknown assessment_id is answered 404 and changes
\* nothing, and the stored status is the mapped value (compliant ->
\* approved, needs_followup -> revision_requested, non_compliant ->
\* escalated), never the status as sent.
C30_OneReviewPerDetection ==
    /\ [](\A d \in 1..Len(detections) :
              Cardinality(ReviewsOf(detections[d].assessment_id)) <= 1)
    /\ [](\A i \in 1..Len(compliance_reviews) :
              /\ compliance_reviews[i].status
                     \notin {"compliant", "needs_followup", "non_compliant"}
              /\ \E d \in 1..Len(detections) :
                     detections[d].id = compliance_reviews[i].detection_id)
    /\ [][(last_response'.handler = "submit_review") =>
             LET r == last_response'
                 a == r.request.assessment_id
                 known == \E d \in 1..Len(detections) :
                              detections[d].assessment_id = a
                 old == ReviewsOf(a)
             IN  /\ r.status = 404 <=> ~known
                 /\ r.status = 404 =>
                        /\ compliance_reviews' = compliance_reviews
                        /\ audit_logs' = audit_logs
                        /\ detections' = detections
                        /\ company_responses' = company_responses
                 /\ (r.status = 200 /\ old = {}) =>
                        /\ Len(compliance_reviews')
                               = Len(compliance_reviews) + 1
                        /\ SubSeq(compliance_reviews', 1,
                                  Len(compliance_reviews))
                               = compliance_reviews
                        /\ r.body.message = "Review submitted successfully"
                 /\ (r.status = 200 /\ old # {}) =>
                        /\ Len(compliance_reviews') = Len(compliance_reviews)
                        /\ \A i \in 1..Len(compliance_reviews) :
                               /\ compliance_reviews'[i].id
                                      = compliance_reviews[i].id
                               /\ compliance_reviews'[i].detection_id
                                      = compliance_reviews[i].detection_id
                               /\ i \notin old =>
                                      compliance_reviews'[i]
                                          = compliance_reviews[i]
                        /\ r.body.message = "Review updated successfully"
                 /\ r.status = 200 =>
                        \A i \in 1..Len(compliance_reviews') :
                            (\E d \in 1..Len(detections) :
                                 /\ detections[d].assessment_id = a
                                 /\ detections[d].id
                                        = compliance_reviews'[i].detection_id)
                            => /\ compliance_reviews'[i].status
                                      = MappedStatus(
                                            r.request.assessment_status)
                               /\ compliance_reviews'[i].protocol_followed
                                      = YesOrNone(
                                            r.request.actions_appropriate,
                                            {"yes", "could_improve"})]_vars

\* a review that was created as approved has been overwritten in place by
\* a submission of needs_followup: one review, status revision_requested
C30_Witness ==
    /\ Len(detections) >= 1
    /\ Len(compliance_reviews) = 1
    /\ ReviewAccepted(last_response)
    /\ last_response.body.message = "Review updated successfully"
    /\ last_response.request.assessment_status = "needs_followup"
    /\ compliance_reviews[1].status = "revision_requested"
    /\ \E j \in 1..Len(audit_logs) :
           /\ audit_logs[j].event_type = "compliance_review_submitted"
           /\ audit_logs[j].details.status = "approved"

====
